---- MODULE Spec2Model ----
(***************************************************************************)
(* Model of the FlexFi on-chain program (flexfi-web3): the staking         *)
(* (collateral) ledger, the freeze-and-spend authorization, the BNPL       *)
(* installment contracts with the repayment checker, the credit score and  *)
(* the yield tracker.                                                      *)
(*                                                                         *)
(* Every handler process_* of the program is one operator that maps the    *)
(* account data it is handed to a result [err, w]: err is the              *)
(* ProgramResult ("Ok" or the error's name) and w the account data as the  *)
(* handler leaves it.  Account data is written where the handler calls     *)
(* serialize, in the order of the code, so a handler that serializes and   *)
(* then fails returns an error together with changed account data.         *)
(* The token program is a balance ledger: a transfer succeeds exactly      *)
(* when the source holds the amount and its authority has signed.          *)
(*                                                                         *)
(* TLC's integers are 32 bits wide, so the u64 range of the program is     *)
(* modelled by the narrower range 0..U64_MAX; every checked_*/saturating_* *)
(* operation is computed against that range.                               *)
(***************************************************************************)
EXTENDS Integers, Sequences, FiniteSets, TLC

VARIABLES
    now,        \* Clock::unix_timestamp, in seconds since the program's deployment
    whitelist_account,  \* the WhitelistAccount (the admin's record)
    whitelist,  \* UserWhitelistStatus accounts: user -> [exists, is_whitelisted]
    wallet,     \* WalletAccount per owner
    staking,    \* StakingAccount per owner (one USDC mint)
    tokens,     \* SPL token balances: user accounts, staking vaults, merchant, platform, yield vault
    auth,       \* AuthorizationAccount per user
    loans,      \* BNPLContractAccount records, in creation order
    score,      \* ScoreAccount per owner
    yield,      \* YieldAccount per owner
    nft,        \* NFTMetadataAccount per mint (one mint per user key)
    attachment, \* NFTAttachmentAccount per mint (one card id)
    card,       \* CardAccount per owner
    last        \* the last call: [op, caller, signed, amount, err]

vars == <<now, whitelist_account, whitelist, wallet, staking, tokens, auth, loans, score,
          yield, nft, attachment, card, last>>

\* ------------------------------------------------------------------ bounds

\* Width of the modelled u64 range (see the header).
U64_MAX == 50000000
\* The clock of the staking and authorization specifications stops here (15 days).
MaxTime == 1296000
\* The clock of the loan specification stops here (30 days and a second).
MaxLoanTime == 2592001
\* The score is updated while each of its counters is below this.
MaxCount == 2
\* The repayment checker runs while the platform has collected at most this.
MaxCollected == 1100
\* At most this many BNPL contracts are created.
MaxLoans == 1
\* Yield is routed while total_yield_earned is at most this.
MaxYield == 3000000
\* At most this many BNPL contracts are created one after another on one deposit.
MaxStackLoans == 141
\* The clock of the entry point's specification stops here (7 days).
MaxEntryTime == 604800
\* The entry point is called while total_yield_earned is at most this.
MaxEntryYield == 500000

\* --------------------------------------------------------------- constants

Users == {"alice", "bob"}

DAY == 86400

CARD_STANDARD == 0
CARD_SILVER == 1
CARD_GOLD == 2
CARD_PLATINUM == 3

NFT_NONE == 0
NFT_BRONZE == 1
NFT_SILVER == 2
NFT_GOLD == 3

MIN_BNPL_INSTALLMENTS == 3
MAX_BNPL_INSTALLMENTS == 36
MIN_PAYMENT_INTERVAL_DAYS == 15
MAX_PAYMENT_INTERVAL_DAYS == 90
GRACE_PERIOD_DAYS == 15

MIN_STAKING_AMOUNT == 10000000
MIN_STAKING_LOCK_DAYS == 7
MAX_STAKING_LOCK_DAYS == 365

INITIAL_SCORE == 500
MAX_SCORE == 1000

\* i16 range of the score delta
I16_MIN == -32768
I16_MAX == 32767
U16_MAX == 65535

\* ClaimYield reinvests below this amount (tracker.rs)
REINVEST_THRESHOLD == 1000000

\* The compiled-in allow-list (constants.rs is expected to define it; it is
\* not part of the sources at hand).
HARDCODED_WHITELIST == {"alice"}

\* ------------------------------------------------------------- arithmetic

Min(a, b) == IF a < b THEN a ELSE b

\* u64::saturating_add
saturating_add(a, b) == IF a > U64_MAX - b THEN U64_MAX ELSE a + b

\* u64::saturating_sub
saturating_sub(a, b) == IF b > a THEN 0 ELSE a - b

\* u64::checked_add / checked_mul / checked_div: [ok, v]
checked_add(a, b) == IF a > U64_MAX - b THEN [ok |-> FALSE, v |-> 0] ELSE [ok |-> TRUE, v |-> a + b]
checked_mul(a, b) ==
    IF b # 0 /\ a > U64_MAX \div b THEN [ok |-> FALSE, v |-> 0] ELSE [ok |-> TRUE, v |-> a * b]
checked_div(a, b) == IF b = 0 THEN [ok |-> FALSE, v |-> 0] ELSE [ok |-> TRUE, v |-> a \div b]
checked_sub(a, b) == IF b > a THEN [ok |-> FALSE, v |-> 0] ELSE [ok |-> TRUE, v |-> a - b]

\* ------------------------------------------------------------------ state

NoAccount == [exists |-> FALSE]

\* The persisted account data, as one record.
World ==
    [whitelist_account |-> whitelist_account, whitelist |-> whitelist, wallet |-> wallet,
     staking |-> staking, tokens |-> tokens, auth |-> auth, loans |-> loans,
     score |-> score, yield |-> yield, nft |-> nft,
     attachment |-> attachment, card |-> card]

Ok(w) == [err |-> "Ok", w |-> w]
Err(e, w) == [err |-> e, w |-> w]

TokenAccounts ==
    ({"user", "vault", "yield"} \X Users) \cup {<<"merchant", "m">>, <<"platform", "p">>}

\* What each user's token account holds at the start.
InitialTokens == 30000000

\* spl_token transfer: [ok, tokens]; `signed` is the authority's signature.
transfer(tok, from, to, amount, signed) ==
    IF ~signed \/ tok[from] < amount
    THEN [ok |-> FALSE, tokens |-> tok]
    ELSE IF from = to THEN [ok |-> TRUE, tokens |-> tok]
    ELSE [ok |-> TRUE,
          tokens |-> [tok EXCEPT ![from] = @ - amount, ![to] = @ + amount]]

\* -------------------------------------------------------------- whitelist

is_hardcoded_whitelisted(user) == user \in HARDCODED_WHITELIST

check_user_whitelisted(w, user) ==
    IF is_hardcoded_whitelisted(user) THEN TRUE
    ELSE IF ~w.whitelist[user].exists THEN FALSE
    ELSE w.whitelist[user].is_whitelisted

require_whitelisted(w, user) == check_user_whitelisted(w, user)

\* Every call ends here: the account data as the handler left it, and the result.
Commit(r, op, caller, signed, amount) ==
    /\ whitelist_account' = r.w.whitelist_account
    /\ whitelist' = r.w.whitelist
    /\ wallet' = r.w.wallet
    /\ staking' = r.w.staking
    /\ tokens' = r.w.tokens
    /\ auth' = r.w.auth
    /\ loans' = r.w.loans
    /\ score' = r.w.score
    /\ yield' = r.w.yield
    /\ nft' = r.w.nft
    /\ attachment' = r.w.attachment
    /\ card' = r.w.card
    /\ last' = [op |-> op, caller |-> caller, signed |-> signed, amount |-> amount,
                err |-> r.err]
    /\ UNCHANGED now

\* ---------------------------------------------------------------- staking
\* StakingAccount without usdc_mint (one mint), created_at, last_update and bump,
\* which no handler reads.

\* A new position whose lock ends when it starts.
StakingAccount_new_unlocked(owner, amount_staked, status, lock_period_end, created_at) ==
    [exists |-> TRUE, owner |-> owner, amount_staked |-> amount_staked, status |-> status,
     lock_period_end |-> created_at]

StakingAccount_new(owner, amount_staked, status, lock_period_end, created_at) ==
    [exists |-> TRUE, owner |-> owner, amount_staked |-> amount_staked, status |-> status,
     lock_period_end |-> lock_period_end]

\* A deposit that always takes the lock period of its own lock_days.
deposit_existing_relock(data, amount, lock_days, current_time) ==
    [data EXCEPT !.amount_staked = saturating_add(@, amount),
                 !.status = "Locked",
                 !.lock_period_end = current_time + lock_days * DAY]

\* The existing-account branch of process_deposit_staking.
deposit_existing(data, amount, lock_days, current_time) ==
    LET added == [data EXCEPT !.amount_staked = saturating_add(@, amount)]
        new_lock_end == current_time + lock_days * DAY
    IN  IF data.status = "Locked"
        THEN IF new_lock_end > data.lock_period_end
             THEN [added EXCEPT !.lock_period_end = new_lock_end]
             ELSE added
        ELSE [added EXCEPT !.status = "Locked", !.lock_period_end = new_lock_end]

\* A deposit that is also taken onto a Closed record.
process_deposit_staking_reopen(w, current_time, user, signed, amount, lock_days) ==
    IF ~signed THEN Err("Unauthorized", w)
    ELSE IF ~require_whitelisted(w, user) THEN Err("Unauthorized", w)
    ELSE IF amount < MIN_STAKING_AMOUNT THEN Err("InsufficientStaking", w)
    ELSE IF lock_days < MIN_STAKING_LOCK_DAYS \/ lock_days > MAX_STAKING_LOCK_DAYS
    THEN Err("InvalidArgument", w)
    ELSE
        LET staking_data ==
                IF w.staking[user].exists
                THEN deposit_existing(w.staking[user], amount, lock_days, current_time)
                ELSE StakingAccount_new(user, amount, "Locked",
                                        current_time + lock_days * DAY, current_time)
            saved == [w EXCEPT !.staking[user] = staking_data]
            t == transfer(saved.tokens, <<"user", user>>, <<"vault", user>>, amount, signed)
        IN IF t.ok THEN Ok([saved EXCEPT !.tokens = t.tokens])
           ELSE Err("TokenInsufficientFunds", saved)

process_deposit_staking(w, current_time, user, signed, amount, lock_days) ==
    IF ~signed THEN Err("Unauthorized", w)
    ELSE IF ~require_whitelisted(w, user) THEN Err("Unauthorized", w)
    ELSE IF amount < MIN_STAKING_AMOUNT THEN Err("InsufficientStaking", w)
    ELSE IF lock_days < MIN_STAKING_LOCK_DAYS \/ lock_days > MAX_STAKING_LOCK_DAYS
    THEN Err("InvalidArgument", w)
    ELSE IF w.staking[user].exists /\ w.staking[user].status \notin {"Active", "Locked"}
    THEN Err("StakingFrozen", w)
    ELSE
        LET staking_data ==
                IF w.staking[user].exists
                THEN deposit_existing(w.staking[user], amount, lock_days, current_time)
                ELSE StakingAccount_new(user, amount, "Locked",
                                        current_time + lock_days * DAY, current_time)
            saved == [w EXCEPT !.staking[user] = staking_data]
            t == transfer(saved.tokens, <<"user", user>>, <<"vault", user>>, amount, signed)
        IN IF t.ok THEN Ok([saved EXCEPT !.tokens = t.tokens])
           ELSE Err("TokenInsufficientFunds", saved)

\* The status check of process_withdraw_staking.
withdrawal_blocked(status) == status \in {"Frozen", "Closed"}

\* A withdrawal that never closes the record.
process_withdraw_staking_open(w, current_time, account, user, signed, amount) ==
    IF ~signed THEN Err("Unauthorized", w)
    ELSE IF ~require_whitelisted(w, user) THEN Err("Unauthorized", w)
    ELSE IF ~w.staking[account].exists THEN Err("BorshIoError", w)
    ELSE IF w.staking[account].owner # user THEN Err("Unauthorized", w)
    ELSE IF withdrawal_blocked(w.staking[account].status) THEN Err("StakingFrozen", w)
    ELSE IF w.staking[account].status = "Locked"
            /\ current_time < w.staking[account].lock_period_end
    THEN Err("StakingFrozen", w)
    ELSE IF amount > w.staking[account].amount_staked THEN Err("InsufficientStaking", w)
    ELSE
        LET staking_data ==
                [w.staking[account] EXCEPT
                    !.amount_staked = saturating_sub(@, amount),
                    !.status = "Active"]
            saved == [w EXCEPT !.staking[account] = staking_data]
            t == transfer(saved.tokens, <<"vault", account>>, <<"user", user>>, amount, TRUE)
        IN IF t.ok THEN Ok([saved EXCEPT !.tokens = t.tokens])
           ELSE Err("TokenInsufficientFunds", saved)

\* `account` names the staking account handed in (its owner's key).
process_withdraw_staking(w, current_time, account, user, signed, amount) ==
    IF ~signed THEN Err("Unauthorized", w)
    ELSE IF ~require_whitelisted(w, user) THEN Err("Unauthorized", w)
    ELSE IF ~w.staking[account].exists THEN Err("BorshIoError", w)
    ELSE IF w.staking[account].owner # user THEN Err("Unauthorized", w)
    ELSE IF withdrawal_blocked(w.staking[account].status) THEN Err("StakingFrozen", w)
    ELSE IF w.staking[account].status = "Locked"
            /\ current_time < w.staking[account].lock_period_end
    THEN Err("StakingFrozen", w)
    ELSE IF amount > w.staking[account].amount_staked THEN Err("InsufficientStaking", w)
    ELSE
        LET left == saturating_sub(w.staking[account].amount_staked, amount)
            staking_data ==
                [w.staking[account] EXCEPT
                    !.amount_staked = left,
                    !.status = IF left < MIN_STAKING_AMOUNT THEN "Closed" ELSE "Active"]
            saved == [w EXCEPT !.staking[account] = staking_data]
            t == transfer(saved.tokens, <<"vault", account>>, <<"user", user>>, amount, TRUE)
        IN IF t.ok THEN Ok([saved EXCEPT !.tokens = t.tokens])
           ELSE Err("TokenInsufficientFunds", saved)

\* An unlock that does not wait for the lock period to end.
process_check_unlock_status_early(w, current_time, account, user, signed) ==
    IF ~signed THEN Err("Unauthorized", w)
    ELSE IF ~require_whitelisted(w, user) THEN Err("Unauthorized", w)
    ELSE IF ~w.staking[account].exists THEN Err("BorshIoError", w)
    ELSE IF w.staking[account].owner # user THEN Err("Unauthorized", w)
    ELSE IF w.staking[account].status # "Locked" THEN Ok(w)
    ELSE Ok([w EXCEPT !.staking[account].status = "Active"])

process_check_unlock_status(w, current_time, account, user, signed) ==
    IF ~signed THEN Err("Unauthorized", w)
    ELSE IF ~require_whitelisted(w, user) THEN Err("Unauthorized", w)
    ELSE IF ~w.staking[account].exists THEN Err("BorshIoError", w)
    ELSE IF w.staking[account].owner # user THEN Err("Unauthorized", w)
    ELSE IF w.staking[account].status # "Locked" THEN Ok(w)
    ELSE IF current_time >= w.staking[account].lock_period_end
    THEN Ok([w EXCEPT !.staking[account].status = "Active"])
    ELSE Ok(w)

\* ---------------------------------------------------------- authorization
\* AuthorizationAccount without flexfi_authority (one program PDA), created_at and bump.

\* A credit line that forgets what was spent.
remaining_credit_unspent(a) == a.authorized_amount

remaining_credit(a) == saturating_sub(a.authorized_amount, a.used_amount)

\* A validity that still holds at the second of expiry.
is_valid_at_expiry(a, current_time) == a.is_active /\ current_time <= a.expires_at

is_valid(a, current_time) == a.is_active /\ current_time < a.expires_at

\* `staking_account` names the staking account handed in; the handler derives the
\* authorization PDA from the signer, so the authorization is the signer's.
process_initialize_flexfi_account(w, current_time, user, signed, staking_account, authorized_amount, duration_days) ==
    IF ~signed THEN Err("Unauthorized", w)
    ELSE IF ~require_whitelisted(w, user) THEN Err("Unauthorized", w)
    ELSE IF ~w.staking[staking_account].exists THEN Err("BorshIoError", w)
    ELSE IF w.staking[staking_account].amount_staked < authorized_amount
    THEN Err("InsufficientStaking", w)
    \* system_instruction::create_account fails on an account that exists
    ELSE IF w.auth[user].exists THEN Err("AccountAlreadyInUse", w)
    ELSE Ok([w EXCEPT !.auth[user] =
                [exists |-> TRUE, user |-> user, authorized_amount |-> authorized_amount,
                 used_amount |-> 0, is_active |-> TRUE,
                 expires_at |-> current_time + duration_days * DAY]])

\* A spend that verifies the collateral again.
process_flexfi_spend_collateralized(w, current_time, authorization, staking_account, authority_ok, amount) ==
    IF ~w.auth[authorization].exists THEN Err("BorshIoError", w)
    ELSE IF ~authority_ok THEN Err("Unauthorized", w)
    ELSE IF ~is_valid(w.auth[authorization], current_time) THEN Err("Unauthorized", w)
    ELSE IF remaining_credit(w.auth[authorization]) < amount
    THEN Err("InsufficientCollateral", w)
    ELSE IF ~w.staking[staking_account].exists THEN Err("BorshIoError", w)
    ELSE IF w.staking[staking_account].amount_staked < amount
    THEN Err("InsufficientCollateral", w)
    ELSE
        LET t == transfer(w.tokens, <<"vault", staking_account>>, <<"merchant", "m">>,
                          amount, TRUE)
        IN IF ~t.ok THEN Err("TokenInsufficientFunds", w)
           ELSE Ok([w EXCEPT !.tokens = t.tokens,
                             !.auth[authorization].used_amount = saturating_add(@, amount)])

\* `authorization` and `staking_account` name the accounts handed in;
\* `authority_ok` says whether the flexfi authority account is the program's PDA.
\* The vault debited is the one of the staking account handed in, and the
\* transfer is signed by the program for its authority PDA.
process_flexfi_spend(w, current_time, authorization, staking_account, authority_ok, amount) ==
    IF ~w.auth[authorization].exists THEN Err("BorshIoError", w)
    ELSE IF ~authority_ok THEN Err("Unauthorized", w)
    ELSE IF ~is_valid(w.auth[authorization], current_time) THEN Err("Unauthorized", w)
    ELSE IF remaining_credit(w.auth[authorization]) < amount
    THEN Err("InsufficientCollateral", w)
    ELSE IF ~w.staking[staking_account].exists THEN Err("BorshIoError", w)
    ELSE
        LET t == transfer(w.tokens, <<"vault", staking_account>>, <<"merchant", "m">>,
                          amount, TRUE)
        IN IF ~t.ok THEN Err("TokenInsufficientFunds", w)
           ELSE Ok([w EXCEPT !.tokens = t.tokens,
                             !.auth[authorization].used_amount = saturating_add(@, amount)])

process_revoke_authorization(w, authorization, user, signed) ==
    IF ~signed THEN Err("Unauthorized", w)
    ELSE IF ~w.auth[authorization].exists THEN Err("BorshIoError", w)
    ELSE IF w.auth[authorization].user # user THEN Err("Unauthorized", w)
    ELSE Ok([w EXCEPT !.auth[authorization].is_active = FALSE])

\* -------------------------------------------------------- whitelist admin
\* WhitelistAccount without is_active and bump; UserWhitelistStatus without
\* whitelisted_at, whitelisted_by and bump.

process_initialize_whitelist(w, authority, signed) ==
    IF ~signed THEN Err("Unauthorized", w)
    \* system_instruction::create_account fails on an account that exists
    ELSE IF w.whitelist_account.exists THEN Err("AccountAlreadyInUse", w)
    ELSE Ok([w EXCEPT !.whitelist_account =
                [exists |-> TRUE, authority |-> authority, total_users |-> 0]])

process_add_to_whitelist(w, authority, signed, user_pubkey) ==
    IF ~signed THEN Err("Unauthorized", w)
    ELSE IF ~w.whitelist_account.exists THEN Err("BorshIoError", w)
    ELSE IF w.whitelist_account.authority # authority THEN Err("Unauthorized", w)
    ELSE IF w.whitelist[user_pubkey].exists THEN Err("AccountAlreadyInUse", w)
    ELSE Ok([w EXCEPT !.whitelist[user_pubkey] =
                          [exists |-> TRUE, user_pubkey |-> user_pubkey,
                           is_whitelisted |-> TRUE],
                      !.whitelist_account.total_users = @ + 1])

process_remove_from_whitelist(w, authority, signed, user_pubkey) ==
    IF ~signed THEN Err("Unauthorized", w)
    ELSE IF ~w.whitelist_account.exists THEN Err("BorshIoError", w)
    ELSE IF w.whitelist_account.authority # authority THEN Err("Unauthorized", w)
    ELSE IF ~w.whitelist[user_pubkey].exists THEN Err("BorshIoError", w)
    ELSE IF w.whitelist[user_pubkey].user_pubkey # user_pubkey THEN Err("InvalidAccountData", w)
    ELSE Ok([w EXCEPT !.whitelist[user_pubkey].is_whitelisted = FALSE,
                      !.whitelist_account.total_users = saturating_sub(@, 1)])

\* ----------------------------------------------------------------- wallet
\* WalletAccount without created_at and bump.

\* WalletAccount::new is called by process_create_wallet and is not among the
\* sources; a new wallet is active, as check_bnpl_authorization expects.
WalletAccount_new(owner, card_type) ==
    [exists |-> TRUE, owner |-> owner, is_active |-> TRUE, card_type |-> card_type]

process_create_wallet(w, user, signed, card_type) ==
    IF ~signed THEN Err("Unauthorized", w)
    ELSE IF ~check_user_whitelisted(w, user) THEN Err("Unauthorized", w)
    ELSE IF card_type > CARD_PLATINUM THEN Err("InvalidCardType", w)
    ELSE IF w.wallet[user].exists THEN Err("AccountAlreadyInUse", w)
    ELSE Ok([w EXCEPT !.wallet[user] = WalletAccount_new(user, card_type)])

\* `account` names the wallet account handed in.
process_deactivate_wallet(w, account, user, signed) ==
    IF ~signed THEN Err("Unauthorized", w)
    ELSE IF ~w.wallet[account].exists THEN Err("BorshIoError", w)
    ELSE IF w.wallet[account].owner # user THEN Err("Unauthorized", w)
    ELSE Ok([w EXCEPT !.wallet[account].is_active = FALSE])

\* ------------------------------------------------------------------- card
\* CardAccount without issued_at, expires_at, is_active, annual_fee_paid_until
\* and bump.

\* [ok, v]
get_card_annual_fee(card_type) ==
    IF card_type = CARD_STANDARD THEN [ok |-> TRUE, v |-> 0]
    ELSE IF card_type = CARD_SILVER THEN [ok |-> TRUE, v |-> 50000000]
    ELSE IF card_type = CARD_GOLD THEN [ok |-> TRUE, v |-> 150000000]
    ELSE IF card_type = CARD_PLATINUM THEN [ok |-> TRUE, v |-> 300000000]
    ELSE [ok |-> FALSE, v |-> 0]

CardAccount_new(owner, card_type) == [exists |-> TRUE, owner |-> owner, card_type |-> card_type]

\* `wallet_account` and `card_account` name the accounts handed in.  The card
\* and the wallet are written before the upgrade fee is collected.
process_upgrade_card(w, wallet_account, card_account, user, signed, new_card_type) ==
    IF ~signed THEN Err("Unauthorized", w)
    ELSE IF ~require_whitelisted(w, user) THEN Err("Unauthorized", w)
    ELSE IF new_card_type > CARD_PLATINUM THEN Err("InvalidCardType", w)
    ELSE IF ~w.wallet[wallet_account].exists THEN Err("BorshIoError", w)
    ELSE IF w.wallet[wallet_account].owner # user THEN Err("Unauthorized", w)
    ELSE IF ~w.wallet[wallet_account].is_active THEN Err("WalletInactive", w)
    ELSE IF w.wallet[wallet_account].card_type = new_card_type
    THEN Err("AlreadyAtThisLevel", w)
    ELSE IF w.wallet[wallet_account].card_type > new_card_type THEN Err("InvalidArgument", w)
    ELSE
        LET current_fee == get_card_annual_fee(w.wallet[wallet_account].card_type)
            new_fee == get_card_annual_fee(new_card_type)
            upgrade_fee == saturating_sub(new_fee.v, current_fee.v)
            card_saved ==
                IF w.card[card_account].exists
                THEN [w EXCEPT !.card[card_account].card_type = new_card_type]
                ELSE [w EXCEPT !.card[card_account] = CardAccount_new(user, new_card_type)]
            saved == [card_saved EXCEPT !.wallet[wallet_account].card_type = new_card_type]
            t == transfer(saved.tokens, <<"user", user>>, <<"platform", "p">>, upgrade_fee,
                          signed)
        IN  IF ~current_fee.ok \/ ~new_fee.ok THEN Err("InvalidArgument", w)
            ELSE IF w.card[card_account].exists /\ w.card[card_account].owner # user
            THEN Err("Unauthorized", w)
            \* a new card account is the PDA of the user
            ELSE IF ~w.card[card_account].exists /\ card_account # user
            THEN Err("InvalidAccountData", w)
            ELSE IF upgrade_fee = 0 THEN Ok(saved)
            ELSE IF t.ok THEN Ok([saved EXCEPT !.tokens = t.tokens])
            ELSE Err("TokenInsufficientFunds", saved)

\* -------------------------------------------------------------------- NFT
\* NFTMetadataAccount without mint, level, duration_days, creation_time and bump.

NFT_MINT_COST == 20000000

NFTMetadataAccount_new(owner, nft_type, duration_days, creation_time) ==
    [exists |-> TRUE, owner |-> owner, nft_type |-> nft_type,
     expiry_time |-> creation_time + duration_days * DAY, is_active |-> TRUE]

is_expired(metadata, current_time) == current_time >= metadata.expiry_time

\* `mint` names the mint whose metadata PDA is created; the metadata is written
\* before the mint fee is collected.
process_mint_nft(w, current_time, mint, user, signed, mint_authority_signed, nft_type) ==
    IF ~signed THEN Err("Unauthorized", w)
    ELSE IF ~require_whitelisted(w, user) THEN Err("Unauthorized", w)
    ELSE IF ~mint_authority_signed THEN Err("Unauthorized", w)
    ELSE IF nft_type < NFT_BRONZE \/ nft_type > NFT_GOLD THEN Err("InvalidNFTType", w)
    ELSE IF w.nft[mint].exists THEN Err("AccountAlreadyInUse", w)
    ELSE
        LET saved == [w EXCEPT !.nft[mint] =
                         NFTMetadataAccount_new(user, nft_type, 365, current_time)]
            t == transfer(saved.tokens, <<"user", user>>, <<"platform", "p">>,
                          NFT_MINT_COST, signed)
        IN IF t.ok THEN Ok([saved EXCEPT !.tokens = t.tokens])
           ELSE Err("TokenInsufficientFunds", saved)

\* NFTAttachmentAccount without nft_mint, card_id, attached_at and bump: the
\* attachment PDA is derived from the mint and the card id (one card id).
NFTAttachmentAccount_new(user_wallet) ==
    [exists |-> TRUE, user_wallet |-> user_wallet, is_active |-> TRUE]

\* `nft_mint` names the mint; the metadata and the attachment are its PDAs.
process_attach_nft(w, current_time, nft_mint, user, signed) ==
    IF ~signed THEN Err("Unauthorized", w)
    ELSE IF ~require_whitelisted(w, user) THEN Err("Unauthorized", w)
    ELSE IF ~w.nft[nft_mint].exists THEN Err("BorshIoError", w)
    ELSE IF w.nft[nft_mint].owner # user THEN Err("Unauthorized", w)
    ELSE IF ~w.nft[nft_mint].is_active \/ is_expired(w.nft[nft_mint], current_time)
    THEN Err("NFTExpired", w)
    \* system_instruction::create_account fails on an account that exists
    ELSE IF w.attachment[nft_mint].exists THEN Err("AccountAlreadyInUse", w)
    ELSE Ok([w EXCEPT !.attachment[nft_mint] = NFTAttachmentAccount_new(user)])

\* `attachment_account` names the attachment handed in.
process_detach_nft(w, attachment_account, user, signed) ==
    IF ~signed THEN Err("Unauthorized", w)
    ELSE IF ~w.attachment[attachment_account].exists THEN Err("BorshIoError", w)
    ELSE IF w.attachment[attachment_account].user_wallet # user THEN Err("Unauthorized", w)
    ELSE Ok([w EXCEPT !.attachment[attachment_account].is_active = FALSE])

\* ------------------------------------------------------------------ score
\* ScoreAccount without last_updated and bump.  An account handed to a handler
\* is [key, is_signer].

Account(key, is_signer) == [key |-> key, is_signer |-> is_signer]

ScoreAccount_new(owner, initial_score) ==
    [exists |-> TRUE, owner |-> owner, score |-> initial_score, on_time_payments |-> 0,
     late_payments |-> 0, defaults |-> 0, total_loans |-> 0]

\* u16::saturating_add / saturating_sub
saturating_add_u16(a, b) == IF a + b > U16_MAX THEN U16_MAX ELSE a + b
saturating_sub_u16(a, b) == IF b > a THEN 0 ELSE a - b

\* `change.abs() as u16` for a negative change; i16::MIN.abs() wraps to i16::MIN
\* where overflow checks are off, and i16::MIN as u16 is 32768.
abs_as_u16(change) == IF change = I16_MIN THEN 32768 ELSE 0 - change

\* A score that is not capped after the addition.
capped_not(new_score) == new_score

capped(new_score) == Min(new_score, 1000)

\* A classification whose default threshold is rounded to -30.
update_score_rounded(data, change) ==
    IF change > 0
    THEN [data EXCEPT !.score = capped(saturating_add_u16(data.score, change)),
                      !.on_time_payments = @ + 1]
    ELSE IF change <= -30
    THEN [data EXCEPT !.score = saturating_sub_u16(data.score, abs_as_u16(change)),
                      !.defaults = @ + 1]
    ELSE IF change < 0
    THEN [data EXCEPT !.score = saturating_sub_u16(data.score, abs_as_u16(change)),
                      !.late_payments = @ + 1]
    ELSE data

\* ScoreAccount::update_score
update_score(data, change) ==
    IF change > 0
    THEN [data EXCEPT !.score = capped(saturating_add_u16(data.score, change)),
                      !.on_time_payments = @ + 1]
    ELSE IF change < -30
    THEN [data EXCEPT !.score = saturating_sub_u16(data.score, abs_as_u16(change)),
                      !.defaults = @ + 1]
    ELSE IF change < 0
    THEN [data EXCEPT !.score = saturating_sub_u16(data.score, abs_as_u16(change)),
                      !.late_payments = @ + 1]
    ELSE data

process_initialize_score(w, user, signed) ==
    IF ~signed THEN Err("Unauthorized", w)
    ELSE IF ~require_whitelisted(w, user) THEN Err("Unauthorized", w)
    ELSE IF w.score[user].exists THEN Ok(w)
    ELSE Ok([w EXCEPT !.score[user] = ScoreAccount_new(user, INITIAL_SCORE)])

\* `score_account` names the score account handed in, which has to be the
\* PDA of the user; the handler reads no signer and writes nothing.
process_get_score(w, score_account, user) ==
    IF score_account # user THEN Err("InvalidAccountData", w)
    ELSE IF ~w.score[score_account].exists THEN Err("BorshIoError", w)
    ELSE IF w.score[score_account].owner # user THEN Err("Unauthorized", w)
    ELSE Ok(w)

\* `accounts` is the account list handed in: the score account, the authority
\* and the clock sysvar are read from it in this order.  `overflow_checks` is
\* the build's setting: with it, i16::MIN.abs() aborts the program.
process_update_score(w, accounts, change, overflow_checks) ==
    IF Len(accounts) < 3 THEN Err("NotEnoughAccountKeys", w)
    ELSE
        LET score_account == accounts[1]
            authority_account == accounts[2]
        IN  IF ~authority_account.is_signer THEN Err("Unauthorized", w)
            ELSE IF ~w.score[score_account.key].exists THEN Err("BorshIoError", w)
            ELSE IF change = I16_MIN /\ overflow_checks THEN Err("Panic", w)
            ELSE Ok([w EXCEPT !.score[score_account.key] = update_score(@, change)])

\* A score update that is content with the checker's two accounts.
ScoreContract_update_score_two(w, accounts, change, overflow_checks) ==
    IF Len(accounts) < 2 THEN Err("NotEnoughAccountKeys", w)
    ELSE IF ~w.score[accounts[1].key].exists THEN Err("BorshIoError", w)
    ELSE Ok([w EXCEPT !.score[accounts[1].key] = update_score(@, change)])

\* ScoreContract::update_score
ScoreContract_update_score(w, accounts, change, overflow_checks) ==
    process_update_score(w, accounts, change, overflow_checks)

\* ------------------------------------------------------------------- BNPL
\* BNPLContractAccount without merchant and token_mint (one merchant, one
\* mint), last_payment_at and bump.  A contract account is named by its place
\* in `loans`; its PDA is derived from the borrower and the creation time.

get_card_config(card_type) ==
    IF card_type = CARD_SILVER
    THEN [apr_percentage |-> 500, bnpl_fee_percentage |-> 400, bnpl_fee_12months |-> 700,
          available_installments |-> <<3, 4, 6, 12>>]
    ELSE IF card_type = CARD_GOLD
    THEN [apr_percentage |-> 600, bnpl_fee_percentage |-> 350, bnpl_fee_12months |-> 500,
          available_installments |-> <<3, 4, 6, 12>>]
    ELSE IF card_type = CARD_PLATINUM
    THEN [apr_percentage |-> 700, bnpl_fee_percentage |-> 300, bnpl_fee_12months |-> 300,
          available_installments |-> <<3, 4, 6, 12>>]
    ELSE [apr_percentage |-> 400, bnpl_fee_percentage |-> 700, bnpl_fee_12months |-> 700,
          available_installments |-> <<3, 4, 6, 0>>]

get_nft_apr_bonus(nft_type) ==
    IF nft_type = NFT_BRONZE THEN 50
    ELSE IF nft_type = NFT_SILVER THEN 150
    ELSE IF nft_type = NFT_GOLD THEN 200
    ELSE 0

get_late_payment_penalty(card_type, nft_type) ==
    IF card_type = CARD_SILVER /\ nft_type = NFT_BRONZE THEN 700
    ELSE IF card_type = CARD_SILVER /\ nft_type = NFT_SILVER THEN 600
    ELSE IF card_type = CARD_GOLD /\ nft_type = NFT_BRONZE THEN 500
    ELSE IF card_type = CARD_GOLD /\ nft_type = NFT_SILVER THEN 400
    ELSE IF card_type = CARD_PLATINUM /\ nft_type = NFT_BRONZE THEN 200
    ELSE IF card_type = CARD_PLATINUM /\ nft_type = NFT_GOLD THEN 100
    ELSE 1000

\* A payment that is due only after its due date.
is_payment_due_after(contract, current_time) == current_time > contract.next_payment_due

is_payment_due(contract, current_time) == current_time >= contract.next_payment_due

\* A payment that is counted without closing the contract.
update_after_payment_open(contract, current_time) ==
    [contract EXCEPT !.paid_installments = @ + 1,
                     !.next_payment_due = current_time + contract.payment_interval_days * DAY]

update_after_payment(contract, current_time) ==
    LET paid == contract.paid_installments + 1
    IN  IF paid >= contract.installments
        THEN [contract EXCEPT !.paid_installments = paid, !.status = "Completed"]
        ELSE [contract EXCEPT !.paid_installments = paid,
                              !.next_payment_due =
                                  current_time + contract.payment_interval_days * DAY]

\* BNPLChecker::check_bnpl_authorization, with the staking account of the
\* borrower's PDA: "Ok" or the error.
check_bnpl_authorization(w, user, wallet_account, loan_amount) ==
    IF ~w.staking[user].exists THEN "BorshIoError"
    ELSE IF w.staking[user].owner # user THEN "Unauthorized"
    ELSE IF w.staking[user].status \in {"Frozen", "Closed"} THEN "StakingFrozen"
    ELSE IF w.staking[user].amount_staked < loan_amount THEN "InsufficientStaking"
    ELSE IF ~w.wallet[wallet_account].exists THEN "BorshIoError"
    ELSE IF ~w.wallet[wallet_account].is_active THEN "WalletInactive"
    ELSE "Ok"

check_installments_for_card(card_type, installments) ==
    LET available == get_card_config(card_type).available_installments
    IN  \E i \in 1..Len(available) : available[i] = installments

\* The NFT tier a new contract records; `nft_account` is "none" when no NFT
\* account is handed in.
contract_nft_type(w, current_time, borrower, nft_account) ==
    IF nft_account = "none" THEN NFT_NONE
    ELSE IF ~w.nft[nft_account].exists THEN NFT_NONE
    ELSE IF w.nft[nft_account].owner # borrower \/ ~w.nft[nft_account].is_active THEN NFT_NONE
    ELSE IF is_expired(w.nft[nft_account], current_time) THEN NFT_NONE
    ELSE w.nft[nft_account].nft_type

\* amount * percentage / 10000, checked: [ok, v]
percentage_of(amount, percentage) ==
    LET m == checked_mul(amount, percentage)
    IN  IF m.ok THEN checked_div(m.v, 10000) ELSE m

\* An installment that charges the yearly interest whatever the number of installments.
installment_amount_yearly(amount, fee_percentage, apr_percentage, installments) ==
    LET fee_amount == percentage_of(amount, fee_percentage)
        apr_amount == percentage_of(amount, apr_percentage)
        with_fee == IF fee_amount.ok THEN checked_add(amount, fee_amount.v) ELSE fee_amount
        total_amount == IF with_fee.ok /\ apr_amount.ok
                        THEN checked_add(with_fee.v, apr_amount.v)
                        ELSE [ok |-> FALSE, v |-> 0]
    IN  IF total_amount.ok THEN checked_div(total_amount.v, installments) ELSE total_amount

\* An installment rounded up instead of down.
installment_amount_ceil(amount, fee_percentage, apr_percentage, installments) ==
    LET fee_amount == percentage_of(amount, fee_percentage)
        apr_yearly == percentage_of(amount, apr_percentage)
        apr_times == IF apr_yearly.ok THEN checked_mul(apr_yearly.v, installments)
                     ELSE apr_yearly
        apr_amount == IF apr_times.ok THEN checked_div(apr_times.v, 12) ELSE apr_times
        with_fee == IF fee_amount.ok THEN checked_add(amount, fee_amount.v) ELSE fee_amount
        total_amount == IF with_fee.ok /\ apr_amount.ok
                        THEN checked_add(with_fee.v, apr_amount.v)
                        ELSE [ok |-> FALSE, v |-> 0]
    IN  IF total_amount.ok /\ installments > 0
        THEN checked_div(total_amount.v + installments - 1, installments)
        ELSE checked_div(total_amount.v, installments)

\* The installment of a new contract, checked: [ok, v]
installment_amount(amount, fee_percentage, apr_percentage, installments) ==
    LET fee_amount == percentage_of(amount, fee_percentage)
        apr_yearly == percentage_of(amount, apr_percentage)
        apr_times == IF apr_yearly.ok THEN checked_mul(apr_yearly.v, installments)
                     ELSE apr_yearly
        apr_amount == IF apr_times.ok THEN checked_div(apr_times.v, 12) ELSE apr_times
        with_fee == IF fee_amount.ok THEN checked_add(amount, fee_amount.v) ELSE fee_amount
        total_amount == IF with_fee.ok /\ apr_amount.ok
                        THEN checked_add(with_fee.v, apr_amount.v)
                        ELSE [ok |-> FALSE, v |-> 0]
    IN  IF total_amount.ok THEN checked_div(total_amount.v, installments) ELSE total_amount

BNPLContractAccount_new(borrower, amount, installments, payment_interval_days, amount_per_installment, fee_percentage, apr_percentage, card_type, nft_type, created_at, next_payment_due) ==
    [borrower |-> borrower, amount |-> amount, installments |-> installments,
     paid_installments |-> 0, next_payment_due |-> next_payment_due,
     payment_interval_days |-> payment_interval_days,
     amount_per_installment |-> amount_per_installment, status |-> "Active",
     created_at |-> created_at, fee_percentage |-> fee_percentage,
     apr_percentage |-> apr_percentage, card_type |-> card_type, nft_type |-> nft_type]

\* `wallet_account` names the wallet account handed in, `nft_account` the NFT
\* metadata account or "none".  The contract is written before the amount is
\* moved from the borrower's token account to the merchant's.  An account
\* that the system program created and the handler never wrote is no contract.
process_create_bnpl_contract(w, current_time, borrower, signed, wallet_account, nft_account, amount, installments, payment_interval_days) ==
    IF ~signed THEN Err("Unauthorized", w)
    ELSE IF ~require_whitelisted(w, borrower) THEN Err("Unauthorized", w)
    ELSE IF installments < MIN_BNPL_INSTALLMENTS \/ installments > MAX_BNPL_INSTALLMENTS
    THEN Err("InvalidInstallments", w)
    ELSE IF payment_interval_days < MIN_PAYMENT_INTERVAL_DAYS
            \/ payment_interval_days > MAX_PAYMENT_INTERVAL_DAYS
    THEN Err("InvalidArgument", w)
    ELSE IF check_bnpl_authorization(w, borrower, wallet_account, amount) # "Ok"
    THEN Err(check_bnpl_authorization(w, borrower, wallet_account, amount), w)
    ELSE
        LET card_type == w.wallet[wallet_account].card_type
            card_config == get_card_config(card_type)
            nft_type == contract_nft_type(w, current_time, borrower, nft_account)
            fee_percentage == IF installments = 12 THEN card_config.bnpl_fee_12months
                              ELSE card_config.bnpl_fee_percentage
            apr_percentage == card_config.apr_percentage + get_nft_apr_bonus(nft_type)
            amount_per_installment ==
                installment_amount(amount, fee_percentage, apr_percentage, installments)
            bnpl_contract ==
                BNPLContractAccount_new(borrower, amount, installments, payment_interval_days,
                                        amount_per_installment.v, fee_percentage,
                                        apr_percentage, card_type, nft_type, current_time,
                                        current_time + payment_interval_days * DAY)
            saved == [w EXCEPT !.loans = Append(@, bnpl_contract)]
            t == transfer(saved.tokens, <<"user", borrower>>, <<"merchant", "m">>,
                          amount, signed)
        IN  IF ~check_installments_for_card(card_type, installments)
            THEN Err("InvalidInstallmentForCard", w)
            ELSE IF \E i \in 1..Len(w.loans) :
                        /\ w.loans[i].borrower = borrower
                        /\ w.loans[i].created_at = current_time
            THEN Err("AccountAlreadyInUse", w)
            ELSE IF ~amount_per_installment.ok THEN Err("MathOverflow", w)
            ELSE IF t.ok THEN Ok([saved EXCEPT !.tokens = t.tokens])
            ELSE Err("TokenInsufficientFunds", saved)

\* A payment that does not look at the contract's status.
process_make_bnpl_payment_any(w, current_time, bnpl_account, borrower, signed) ==
    IF ~signed THEN Err("Unauthorized", w)
    ELSE IF ~require_whitelisted(w, borrower) THEN Err("Unauthorized", w)
    ELSE IF bnpl_account \notin 1..Len(w.loans) THEN Err("BorshIoError", w)
    ELSE
        LET bnpl_contract == w.loans[bnpl_account]
            t == transfer(w.tokens, <<"user", borrower>>, <<"platform", "p">>,
                          bnpl_contract.amount_per_installment, signed)
        IN  IF bnpl_contract.borrower # borrower THEN Err("Unauthorized", w)
            ELSE IF bnpl_contract.paid_installments >= bnpl_contract.installments
            THEN Ok([w EXCEPT !.loans[bnpl_account].status = "Completed"])
            ELSE IF ~t.ok THEN Err("TokenInsufficientFunds", w)
            ELSE Ok([w EXCEPT !.tokens = t.tokens,
                              !.loans[bnpl_account] =
                                  update_after_payment(bnpl_contract, current_time)])

\* `bnpl_account` names the contract account handed in.
process_make_bnpl_payment(w, current_time, bnpl_account, borrower, signed) ==
    IF ~signed THEN Err("Unauthorized", w)
    ELSE IF ~require_whitelisted(w, borrower) THEN Err("Unauthorized", w)
    ELSE IF bnpl_account \notin 1..Len(w.loans) THEN Err("BorshIoError", w)
    ELSE
        LET bnpl_contract == w.loans[bnpl_account]
            t == transfer(w.tokens, <<"user", borrower>>, <<"platform", "p">>,
                          bnpl_contract.amount_per_installment, signed)
        IN  IF bnpl_contract.borrower # borrower THEN Err("Unauthorized", w)
            ELSE IF bnpl_contract.status # "Active" THEN Err("LoanNotActive", w)
            ELSE IF bnpl_contract.paid_installments >= bnpl_contract.installments
            THEN Ok([w EXCEPT !.loans[bnpl_account].status = "Completed"])
            ELSE IF ~t.ok THEN Err("TokenInsufficientFunds", w)
            ELSE Ok([w EXCEPT !.tokens = t.tokens,
                              !.loans[bnpl_account] =
                                  update_after_payment(bnpl_contract, current_time)])

\* A cancellation that does not look at the contract's status.
process_cancel_bnpl_contract_any(w, bnpl_account, borrower, signed) ==
    IF ~signed THEN Err("Unauthorized", w)
    ELSE IF bnpl_account \notin 1..Len(w.loans) THEN Err("BorshIoError", w)
    ELSE IF w.loans[bnpl_account].borrower # borrower THEN Err("Unauthorized", w)
    ELSE Ok([w EXCEPT !.loans[bnpl_account].status = "Cancelled"])

\* A cancellation that does not look at what was paid.
process_cancel_bnpl_contract_paid(w, bnpl_account, borrower, signed) ==
    IF ~signed THEN Err("Unauthorized", w)
    ELSE IF bnpl_account \notin 1..Len(w.loans) THEN Err("BorshIoError", w)
    ELSE IF w.loans[bnpl_account].borrower # borrower THEN Err("Unauthorized", w)
    ELSE IF w.loans[bnpl_account].status # "Active" THEN Err("LoanNotActive", w)
    ELSE Ok([w EXCEPT !.loans[bnpl_account].status = "Cancelled"])

process_cancel_bnpl_contract(w, bnpl_account, borrower, signed) ==
    IF ~signed THEN Err("Unauthorized", w)
    ELSE IF bnpl_account \notin 1..Len(w.loans) THEN Err("BorshIoError", w)
    ELSE IF w.loans[bnpl_account].borrower # borrower THEN Err("Unauthorized", w)
    ELSE IF w.loans[bnpl_account].status # "Active" THEN Err("LoanNotActive", w)
    ELSE IF w.loans[bnpl_account].paid_installments > 0 THEN Err("InvalidAccountData", w)
    ELSE Ok([w EXCEPT !.loans[bnpl_account].status = "Cancelled"])

\* The direct debit of process_check_repayment has succeeded: `w` holds the
\* moved tokens.  `accounts` is the list handed to ScoreContract::update_score.
repayment_debited(w, current_time, bnpl_account, accounts) ==
    LET bnpl_contract == update_after_payment(w.loans[bnpl_account], current_time)
        on_time == ScoreContract_update_score(w, accounts, 5, FALSE)
        saved == [on_time.w EXCEPT !.loans[bnpl_account] = bnpl_contract]
        completed == ScoreContract_update_score(saved, accounts, 20, FALSE)
    IN  IF on_time.err # "Ok" THEN on_time
        ELSE IF bnpl_contract.status = "Completed" THEN completed
        ELSE Ok(saved)

\* The branch of process_check_repayment past the grace period: the
\* installment and its penalty are taken from the staking vault.
repayment_from_staking(w, current_time, bnpl_account, borrower_account, staking_account, wallet_account, accounts) ==
    IF ~w.wallet[wallet_account].exists \/ ~w.staking[staking_account].exists
    THEN Err("BorshIoError", w)
    ELSE IF w.staking[staking_account].owner # borrower_account.key THEN Err("Unauthorized", w)
    ELSE
        LET bnpl_contract == w.loans[bnpl_account]
            staking_data == w.staking[staking_account]
            penalty_percentage ==
                get_late_payment_penalty(w.wallet[wallet_account].card_type,
                                         bnpl_contract.nft_type)
            penalty_amount ==
                percentage_of(bnpl_contract.amount_per_installment, penalty_percentage)
            total_deduction ==
                IF penalty_amount.ok
                THEN checked_add(bnpl_contract.amount_per_installment, penalty_amount.v)
                ELSE penalty_amount
            available_amount == staking_data.amount_staked
            covered == available_amount >= bnpl_contract.amount_per_installment
            short == staking_data.amount_staked < total_deduction.v
            taken == IF short THEN available_amount ELSE total_deduction.v
            t == transfer(w.tokens, <<"vault", staking_account>>, <<"platform", "p">>,
                          taken, TRUE)
            moved == [w EXCEPT !.tokens = t.tokens]
            no_collateral == ScoreContract_update_score(w, accounts, -50, FALSE)
            scored == ScoreContract_update_score(moved, accounts,
                                                 IF short /\ ~covered THEN -50 ELSE -20, FALSE)
            contract_after ==
                IF short /\ ~covered THEN [bnpl_contract EXCEPT !.status = "Defaulted"]
                ELSE update_after_payment(bnpl_contract, current_time)
            staked_after == IF short THEN 0 ELSE checked_sub(available_amount, taken).v
        IN  IF ~total_deduction.ok THEN Err("MathOverflow", w)
            ELSE IF short /\ available_amount = 0
            THEN IF no_collateral.err # "Ok" THEN no_collateral
                 ELSE Err("InsufficientCollateralForAutoDebit",
                          [no_collateral.w EXCEPT !.loans[bnpl_account].status = "Defaulted"])
            ELSE IF ~t.ok THEN Err("TokenInsufficientFunds", w)
            ELSE IF scored.err # "Ok" THEN scored
            ELSE Ok([scored.w EXCEPT !.staking[staking_account].amount_staked = staked_after,
                                     !.loans[bnpl_account] = contract_after])

\* `bnpl_account`, `score_account`, `staking_account` and `wallet_account`
\* name the accounts handed in; `borrower_account` is [key, is_signer] and its
\* token account is the one debited.  The handler checks no signature itself.
process_check_repayment(w, current_time, bnpl_account, borrower_account, score_account, staking_account, wallet_account) ==
    IF bnpl_account \notin 1..Len(w.loans) THEN Err("BorshIoError", w)
    ELSE
        LET bnpl_contract == w.loans[bnpl_account]
            accounts == <<Account(score_account, FALSE), borrower_account>>
            debit == transfer(w.tokens, <<"user", borrower_account.key>>, <<"platform", "p">>,
                              bnpl_contract.amount_per_installment,
                              borrower_account.is_signer)
            grace_period == GRACE_PERIOD_DAYS * DAY
        IN  IF bnpl_contract.status # "Active" THEN Ok(w)
            ELSE IF ~is_payment_due(bnpl_contract, current_time) THEN Ok(w)
            ELSE IF debit.ok
            THEN repayment_debited([w EXCEPT !.tokens = debit.tokens], current_time,
                                   bnpl_account, accounts)
            ELSE IF current_time > bnpl_contract.next_payment_due + grace_period
            THEN repayment_from_staking(w, current_time, bnpl_account, borrower_account,
                                        staking_account, wallet_account, accounts)
            ELSE ScoreContract_update_score(w, accounts, -10, FALSE)

\* ------------------------------------------------------------------ yield
\* YieldAccount without custom_strategy_address, last_yield_claimed,
\* created_at and bump.  Strategies are the u8 values 0..4; 4 is Custom.

STRATEGY_CUSTOM == 4

YieldAccount_new(owner, strategy, auto_reinvest) ==
    [exists |-> TRUE, owner |-> owner, strategy |-> strategy, auto_reinvest |-> auto_reinvest,
     total_yield_earned |-> 0, total_yield_claimed |-> 0]

\* Unclaimed yield that forgets what was claimed.
get_unclaimed_yield_earned(data) == data.total_yield_earned

get_unclaimed_yield(data) == saturating_sub(data.total_yield_earned, data.total_yield_claimed)

record_yield_earned(data, amount) ==
    [data EXCEPT !.total_yield_earned = saturating_add(@, amount)]

\* [ok, data]
record_yield_claimed(data, amount) ==
    IF amount > get_unclaimed_yield(data) THEN [ok |-> FALSE, data |-> data]
    ELSE [ok |-> TRUE,
          data |-> [data EXCEPT !.total_yield_claimed = saturating_add(@, amount)]]

\* `custom_account` is "none" when no custom strategy account is handed in.
process_set_yield_strategy(w, user, signed, strategy, auto_reinvest, custom_account) ==
    IF ~signed THEN Err("Unauthorized", w)
    ELSE IF ~require_whitelisted(w, user) THEN Err("Unauthorized", w)
    ELSE IF strategy > STRATEGY_CUSTOM THEN Err("InvalidAccountData", w)
    ELSE IF strategy = STRATEGY_CUSTOM /\ custom_account = "none" THEN Err("InvalidArgument", w)
    ELSE IF w.yield[user].exists
    THEN IF w.yield[user].owner # user THEN Err("Unauthorized", w)
         ELSE Ok([w EXCEPT !.yield[user].strategy = strategy,
                           !.yield[user].auto_reinvest = auto_reinvest])
    ELSE Ok([w EXCEPT !.yield[user] = YieldAccount_new(user, strategy, auto_reinvest)])

\* `yield_account` names the yield account handed in; the amount goes from the
\* caller's token account to the yield vault of that account.
process_route_yield(w, yield_account, user, signed, amount) ==
    IF ~signed THEN Err("Unauthorized", w)
    ELSE IF ~w.yield[yield_account].exists THEN Err("BorshIoError", w)
    ELSE IF w.yield[yield_account].owner # user THEN Err("Unauthorized", w)
    ELSE
        LET t == transfer(w.tokens, <<"user", user>>, <<"yield", yield_account>>,
                          amount, signed)
        IN  IF ~t.ok THEN Err("TokenInsufficientFunds", w)
            ELSE Ok([w EXCEPT !.tokens = t.tokens,
                              !.yield[yield_account] = record_yield_earned(@, amount)])

\* A claim that is always paid out, whatever auto_reinvest says.
process_claim_yield_paid(w, yield_account, user, signed, amount) ==
    IF ~signed THEN Err("Unauthorized", w)
    ELSE IF ~require_whitelisted(w, user) THEN Err("Unauthorized", w)
    ELSE IF ~w.yield[yield_account].exists THEN Err("BorshIoError", w)
    ELSE IF w.yield[yield_account].owner # user THEN Err("Unauthorized", w)
    ELSE IF amount > get_unclaimed_yield(w.yield[yield_account])
    THEN Err("NoYieldToClaim", w)
    ELSE
        LET claimed == record_yield_claimed(w.yield[yield_account], amount)
            t == transfer(w.tokens, <<"yield", yield_account>>, <<"user", user>>,
                          amount, TRUE)
        IN  IF ~t.ok THEN Err("TokenInsufficientFunds", w)
            ELSE Ok([w EXCEPT !.tokens = t.tokens, !.yield[yield_account] = claimed.data])

process_claim_yield(w, yield_account, user, signed, amount) ==
    IF ~signed THEN Err("Unauthorized", w)
    ELSE IF ~require_whitelisted(w, user) THEN Err("Unauthorized", w)
    ELSE IF ~w.yield[yield_account].exists THEN Err("BorshIoError", w)
    ELSE IF w.yield[yield_account].owner # user THEN Err("Unauthorized", w)
    ELSE IF amount > get_unclaimed_yield(w.yield[yield_account])
    THEN Err("NoYieldToClaim", w)
    ELSE
        LET yield_data == w.yield[yield_account]
            claimed == record_yield_claimed(yield_data, amount)
            t == transfer(w.tokens, <<"yield", yield_account>>, <<"user", user>>,
                          amount, TRUE)
        IN  IF yield_data.auto_reinvest /\ amount < REINVEST_THRESHOLD
            THEN IF ~claimed.ok THEN Err("InsufficientFunds", w)
                 ELSE Ok([w EXCEPT !.yield[yield_account] =
                                       record_yield_earned(claimed.data, amount)])
            ELSE IF ~t.ok THEN Err("TokenInsufficientFunds", w)
            ELSE IF ~claimed.ok THEN Err("InsufficientFunds", w)
            ELSE Ok([w EXCEPT !.tokens = t.tokens, !.yield[yield_account] = claimed.data])

\* ------------------------------------------------------------ entry point
\* FlexfiInstruction: the variants in the order of the enum, each with the
\* number of its fields.  Borsh encodes a variant as its index in this order,
\* followed by the fields.
FlexfiInstruction ==
    << [name |-> "DepositStaking", fields |-> 2],
       [name |-> "WithdrawStaking", fields |-> 1],
       [name |-> "MintNFT", fields |-> 1],
       [name |-> "AttachNFT", fields |-> 1],
       [name |-> "DetachNFT", fields |-> 0],
       [name |-> "UpgradeCard", fields |-> 1],
       [name |-> "InitializeScore", fields |-> 0],
       [name |-> "UpdateScore", fields |-> 1],
       [name |-> "GetScore", fields |-> 0],
       [name |-> "SetYieldStrategy", fields |-> 2],
       [name |-> "RouteYield", fields |-> 1],
       [name |-> "ClaimYield", fields |-> 1],
       [name |-> "InitializeWhitelist", fields |-> 0],
       [name |-> "AddToWhitelist", fields |-> 1],
       [name |-> "RemoveFromWhitelist", fields |-> 1],
       [name |-> "InitializeFlexFiAccount", fields |-> 2],
       [name |-> "RevokeFundsAuthorization", fields |-> 0],
       [name |-> "FlexFiSpend", fields |-> 2] >>

\* `instruction_data` is <<index, field, ...>>, the index being the first
\* byte.  try_from_slice fails on an index that is no variant's and on data
\* that is shorter or longer than the variant's fields.  [ok, name, f]
decode_instruction(instruction_data) ==
    IF Len(instruction_data) = 0 THEN [ok |-> FALSE, name |-> "none", f |-> <<>>]
    ELSE IF instruction_data[1] + 1 \notin 1..Len(FlexfiInstruction)
    THEN [ok |-> FALSE, name |-> "none", f |-> <<>>]
    ELSE IF Len(instruction_data) # 1 + FlexfiInstruction[instruction_data[1] + 1].fields
    THEN [ok |-> FALSE, name |-> "none", f |-> <<>>]
    ELSE [ok |-> TRUE, name |-> FlexfiInstruction[instruction_data[1] + 1].name,
          f |-> Tail(instruction_data)]

\* A handler's result together with the name of the handler that was called.
Routed(op, r) == [err |-> r.err, w |-> r.w, op |-> op]

\* `accounts` is the account list handed in, by the roles the handlers read:
\* user (the signer's account, [key, is_signer]), account and second (the
\* keys of the first and second data account), authority_ok,
\* mint_authority_signed, custom_account and with_clock (whether the clock
\* sysvar follows the authority in UpdateScore's list).  `overflow_checks` is
\* the build's setting.  [err, w, op]
process_instruction(w, current_time, overflow_checks, accounts, instruction_data) ==
    LET instruction == decode_instruction(instruction_data)
        f == instruction.f
        user == accounts.user.key
        signed == accounts.user.is_signer
    IN  IF ~instruction.ok THEN Routed("none", Err("InvalidInstructionData", w))
        ELSE CASE instruction.name = "InitializeFlexFiAccount" ->
                 Routed("initialize",
                        process_initialize_flexfi_account(w, current_time, user, signed,
                                                          accounts.second, f[1], f[2]))
          [] instruction.name = "FlexFiSpend" ->
                 Routed("spend",
                        process_flexfi_spend(w, current_time, accounts.account, accounts.second,
                                             accounts.authority_ok, f[1]))
          [] instruction.name = "RevokeFundsAuthorization" ->
                 Routed("revoke", process_revoke_authorization(w, accounts.account, user, signed))
          [] instruction.name = "InitializeWhitelist" ->
                 Routed("initialize_whitelist", process_initialize_whitelist(w, user, signed))
          [] instruction.name = "AddToWhitelist" ->
                 Routed("add_to_whitelist", process_add_to_whitelist(w, user, signed, f[1]))
          [] instruction.name = "RemoveFromWhitelist" ->
                 Routed("remove_from_whitelist",
                        process_remove_from_whitelist(w, user, signed, f[1]))
          [] instruction.name = "DepositStaking" ->
                 Routed("deposit",
                        process_deposit_staking(w, current_time, user, signed, f[1], f[2]))
          [] instruction.name = "WithdrawStaking" ->
                 Routed("withdraw",
                        process_withdraw_staking(w, current_time, accounts.account, user, signed,
                                                 f[1]))
          [] instruction.name = "MintNFT" ->
                 Routed("mint_nft",
                        process_mint_nft(w, current_time, accounts.account, user, signed,
                                         accounts.mint_authority_signed, f[1]))
          [] instruction.name = "AttachNFT" ->
                 Routed("attach_nft",
                        process_attach_nft(w, current_time, accounts.account, user, signed))
          [] instruction.name = "DetachNFT" ->
                 Routed("detach_nft", process_detach_nft(w, accounts.account, user, signed))
          [] instruction.name = "UpgradeCard" ->
                 Routed("upgrade_card",
                        process_upgrade_card(w, accounts.account, accounts.second, user, signed,
                                             f[1]))
          [] instruction.name = "InitializeScore" ->
                 Routed("initialize_score", process_initialize_score(w, user, signed))
          [] instruction.name = "UpdateScore" ->
                 Routed("update_score",
                        process_update_score(
                            w,
                            IF accounts.with_clock
                            THEN <<Account(accounts.account, FALSE), accounts.user,
                                   Account("clock", FALSE)>>
                            ELSE <<Account(accounts.account, FALSE), accounts.user>>,
                            f[1], overflow_checks))
          [] instruction.name = "GetScore" ->
                 Routed("get_score", process_get_score(w, accounts.account, user))
          [] instruction.name = "SetYieldStrategy" ->
                 Routed("set_yield_strategy",
                        process_set_yield_strategy(w, user, signed, f[1], f[2],
                                                   accounts.custom_account))
          [] instruction.name = "RouteYield" ->
                 Routed("route_yield",
                        process_route_yield(w, accounts.account, user, signed, f[1]))
          [] instruction.name = "ClaimYield" ->
                 Routed("claim_yield",
                        process_claim_yield(w, accounts.account, user, signed, f[1]))

\* ---------------------------------------------------------------- actions

\* The callers of the model: <<key, is_signer>>.  alice is on the compiled-in
\* allow-list; bob is whitelisted only through AddToWhitelist.
Callers == {<<"alice", TRUE>>, <<"alice", FALSE>>, <<"bob", TRUE>>}

DepositAmounts == {5000000, 10000000, 20000000}
WithdrawAmounts == {5000000, 10000000}
LockDays == {6, 7, 14, 366}

\* The clock advances by `step` seconds while it stays within `limit`.
Tick(step, limit) ==
    /\ now + step <= limit
    /\ now' = now + step
    /\ UNCHANGED <<whitelist_account, whitelist, wallet, staking, tokens, auth, loans, score,
                   yield, nft, attachment, card, last>>

TickWeek == Tick(7 * DAY, MaxTime)

\* One second, offered on whole days only.
TickSecond == now % DAY = 0 /\ Tick(1, MaxTime)

DepositStakingOf(callers, amounts, days) ==
    \E c \in callers, amount \in amounts, lock_days \in days :
        Commit(process_deposit_staking(World, now, c[1], c[2], amount, lock_days),
               "deposit", c[1], c[2], amount)

WithdrawStakingOf(accounts, callers, amounts) ==
    \E account \in accounts, c \in callers, amount \in amounts :
        Commit(process_withdraw_staking(World, now, account, c[1], c[2], amount),
               "withdraw", c[1], c[2], amount)

DepositStaking == DepositStakingOf(Callers, DepositAmounts, LockDays)

WithdrawStaking == WithdrawStakingOf(Users, Callers, WithdrawAmounts)

CheckUnlockStatus ==
    \E account \in Users, c \in Callers :
        Commit(process_check_unlock_status(World, now, account, c[1], c[2]),
               "check_unlock", c[1], c[2], 0)

AuthorizedAmounts == {10000000, 20000000}
DurationDays == {0, 7}
SpendAmounts == {5000000, 10000000}

InitializeFlexFiAccount ==
    \E c \in Callers, staking_account \in Users,
       authorized_amount \in AuthorizedAmounts, duration_days \in DurationDays :
        Commit(process_initialize_flexfi_account(World, now, c[1], c[2], staking_account,
                                                 authorized_amount, duration_days),
               "initialize", c[1], c[2], authorized_amount)

\* Spend names no caller: the handler reads no signer.
FlexFiSpend ==
    \E authorization \in Users, staking_account \in Users, authority_ok \in BOOLEAN,
       amount \in SpendAmounts :
        Commit(process_flexfi_spend(World, now, authorization, staking_account,
                                    authority_ok, amount),
               "spend", "none", FALSE, amount)

RevokeFundsAuthorization ==
    \E authorization \in Users, c \in Callers :
        Commit(process_revoke_authorization(World, authorization, c[1], c[2]),
               "revoke", c[1], c[2], 0)

\* ---- the loan specification's inputs

LoanCaller == {<<"alice", TRUE>>}
LoanAccounts == {Account("alice", TRUE), Account("alice", FALSE)}
CardTypes == {CARD_STANDARD}
LoanAmounts == {3000}
Installments == {2, 3}
IntervalDays == {14, 15}

TickInterval == Tick(MIN_PAYMENT_INTERVAL_DAYS * DAY, MaxLoanTime)

\* One second, offered where the first installment's grace period ends.
TickLoanSecond ==
    /\ now = (MIN_PAYMENT_INTERVAL_DAYS + GRACE_PERIOD_DAYS) * DAY
    /\ Tick(1, MaxLoanTime)

CreateWallet ==
    \E c \in LoanCaller, card_type \in CardTypes :
        Commit(process_create_wallet(World, c[1], c[2], card_type),
               "create_wallet", c[1], c[2], 0)

CreateBNPLContractOf(amounts, counts, intervals) ==
    /\ Len(loans) < MaxLoans
    /\ \E c \in LoanCaller, amount \in amounts, installments \in counts,
          payment_interval_days \in intervals :
        Commit(process_create_bnpl_contract(World, now, c[1], c[2], c[1], "none", amount,
                                            installments, payment_interval_days),
               "create_bnpl", c[1], c[2], amount)

CreateBNPLContract == CreateBNPLContractOf(LoanAmounts, Installments, IntervalDays)

MakeBNPLPayment ==
    \E bnpl_account \in 1..MaxLoans, c \in Callers :
        Commit(process_make_bnpl_payment(World, now, bnpl_account, c[1], c[2]),
               "make_payment", c[1], c[2], 0)

CancelBNPLContract ==
    \E bnpl_account \in 1..MaxLoans, c \in Callers :
        Commit(process_cancel_bnpl_contract(World, bnpl_account, c[1], c[2]),
               "cancel", c[1], c[2], 0)

\* The checker is called with the borrower's own score, staking and wallet accounts.
CheckRepayment ==
    /\ tokens[<<"platform", "p">>] <= MaxCollected
    /\ \E bnpl_account \in 1..MaxLoans, borrower_account \in LoanAccounts :
        Commit(process_check_repayment(World, now, bnpl_account, borrower_account,
                                       borrower_account.key, borrower_account.key,
                                       borrower_account.key),
               "check_repayment", borrower_account.key, borrower_account.is_signer, 0)

\* ---- the score specification's inputs

ScoreChanges == {I16_MIN, -31, -30, 0, 5, I16_MAX}

InitializeScore ==
    \E c \in Callers :
        Commit(process_initialize_score(World, c[1], c[2]), "initialize_score", c[1], c[2], 0)

\* UpdateScore as the dispatcher routes it: the score account, the authority
\* and, when `with_clock`, the clock sysvar.
UpdateScore ==
    \E score_account \in {"alice"}, c \in Callers, change \in ScoreChanges,
       with_clock \in BOOLEAN, overflow_checks \in BOOLEAN :
        /\ score[score_account].exists =>
              /\ score[score_account].on_time_payments < MaxCount
              /\ score[score_account].late_payments < MaxCount
              /\ score[score_account].defaults < MaxCount
        /\ Commit(process_update_score(
                      World,
                      IF with_clock
                      THEN <<Account(score_account, FALSE), Account(c[1], c[2]),
                             Account("clock", FALSE)>>
                      ELSE <<Account(score_account, FALSE), Account(c[1], c[2])>>,
                      change, overflow_checks),
                  "update_score", c[1], c[2], 0)

\* ---- the yield specification's inputs

Strategies == {0, STRATEGY_CUSTOM, 5}
YieldAmounts == {500000, 1000000, 2000000}

SetYieldStrategy ==
    \E c \in Callers, strategy \in Strategies, auto_reinvest \in BOOLEAN,
       custom_account \in {"none", "custom"} :
        Commit(process_set_yield_strategy(World, c[1], c[2], strategy, auto_reinvest,
                                          custom_account),
               "set_yield_strategy", c[1], c[2], 0)

RouteYield ==
    \E yield_account \in Users, c \in Callers, amount \in YieldAmounts :
        /\ yield[yield_account].exists =>
              yield[yield_account].total_yield_earned <= MaxYield
        /\ Commit(process_route_yield(World, yield_account, c[1], c[2], amount),
                  "route_yield", c[1], c[2], amount)

ClaimYield ==
    \E yield_account \in Users, c \in Callers, amount \in YieldAmounts :
        /\ yield[yield_account].exists =>
              yield[yield_account].total_yield_earned <= MaxYield
        /\ Commit(process_claim_yield(World, yield_account, c[1], c[2], amount),
                  "claim_yield", c[1], c[2], amount)

Init ==
    /\ now = 0
    /\ whitelist_account = NoAccount
    /\ whitelist = [u \in Users |-> NoAccount]
    /\ wallet = [u \in Users |-> NoAccount]
    /\ staking = [u \in Users |-> NoAccount]
    /\ tokens = [a \in TokenAccounts |-> IF a[1] = "user" THEN InitialTokens ELSE 0]
    /\ auth = [u \in Users |-> NoAccount]
    /\ loans = <<>>
    /\ score = [u \in Users |-> NoAccount]
    /\ yield = [u \in Users |-> NoAccount]
    /\ nft = [u \in Users |-> NoAccount]
    /\ attachment = [u \in Users |-> NoAccount]
    /\ card = [u \in Users |-> NoAccount]
    /\ last = [op |-> "none", caller |-> "none", signed |-> FALSE, amount |-> 0, err |-> "Ok"]

NextStaking == DepositStaking \/ WithdrawStaking \/ CheckUnlockStatus \/ TickWeek \/ TickSecond

SpecStaking == Init /\ [][NextStaking]_vars

\* The authorization engine over one deposit size.
AuthDeposit == DepositStakingOf({<<"alice", TRUE>>}, {20000000}, {7})

AuthWithdraw == WithdrawStakingOf({"alice"}, {<<"alice", TRUE>>}, {10000000})

NextAuth ==
    \/ AuthDeposit
    \/ AuthWithdraw
    \/ InitializeFlexFiAccount
    \/ FlexFiSpend
    \/ RevokeFundsAuthorization
    \/ TickWeek

SpecAuth == Init /\ [][NextAuth]_vars

\* The loan engine: one borrower, her wallet and collateral, her contracts.
LoanDeposit == DepositStakingOf(LoanCaller, {10000000}, {7})

LoanWithdraw == WithdrawStakingOf({"alice"}, LoanCaller, {5000000, 10000000})

NextLoan ==
    \/ CreateWallet
    \/ LoanDeposit
    \/ LoanWithdraw
    \/ CreateBNPLContract
    \/ MakeBNPLPayment
    \/ CancelBNPLContract
    \/ CheckRepayment
    \/ TickInterval
    \/ TickLoanSecond

SpecLoan == Init /\ [][NextLoan]_vars

\* The score: UpdateScore as dispatched, and the repayment checker on one contract.
ScoreDeposit == DepositStakingOf(LoanCaller, {10000000}, {7})

ScoreCreateBNPLContract == CreateBNPLContractOf({3000}, {3}, {15})

\* To the first due date.
ScoreTick == Tick(MIN_PAYMENT_INTERVAL_DAYS * DAY, MaxTime)

NextScore ==
    \/ InitializeScore
    \/ UpdateScore
    \/ CreateWallet
    \/ ScoreDeposit
    \/ ScoreCreateBNPLContract
    \/ CheckRepayment
    \/ ScoreTick

SpecScore == Init /\ [][NextScore]_vars

\* The repayment checker on one contract of a borrower who has a score record:
\* the clock runs past the first installment's grace period and the collateral
\* can be withdrawn in full.
RepayInitializeScore ==
    \E c \in LoanCaller :
        Commit(process_initialize_score(World, c[1], c[2]), "initialize_score", c[1], c[2], 0)

RepayDeposit == DepositStakingOf(LoanCaller, {10000000}, {7})

\* The whole collateral, and all of it but 1,100: an installment (1,080)
\* without its whole penalty.
RepayWithdraw == WithdrawStakingOf({"alice"}, LoanCaller, {10000000, 9998900})

RepayCreateBNPLContract == CreateBNPLContractOf({3000}, {3}, {15})

NextRepay ==
    \/ RepayInitializeScore
    \/ CreateWallet
    \/ RepayDeposit
    \/ RepayWithdraw
    \/ RepayCreateBNPLContract
    \/ CheckRepayment
    \/ TickInterval
    \/ TickLoanSecond

SpecRepay == Init /\ [][NextRepay]_vars

\* Contract creation over every card tier, with and without an NFT: the clock
\* stands still, so a borrower's second contract would have the PDA of the first.
CreateCardTypes == {CARD_STANDARD, CARD_SILVER, CARD_GOLD, CARD_PLATINUM, 4}
CreateAmounts == {1200, 3000, 100000}
CreateInstallments == {0, 3, 4, 5, 6, 12, 37}
CreateNFTTypes == {NFT_NONE, NFT_BRONZE, NFT_GOLD}

CreateWalletAny ==
    \E c \in LoanCaller, card_type \in CreateCardTypes :
        Commit(process_create_wallet(World, c[1], c[2], card_type),
               "create_wallet", c[1], c[2], 0)

CreateDeposit == DepositStakingOf(LoanCaller, {10000000}, {7})

MintNFT ==
    \E c \in LoanCaller, mint_authority_signed \in BOOLEAN, nft_type \in CreateNFTTypes :
        Commit(process_mint_nft(World, now, c[1], c[1], c[2], mint_authority_signed, nft_type),
               "mint_nft", c[1], c[2], 0)

CreateBNPLContractAny ==
    /\ Len(loans) < MaxLoans
    /\ \E c \in LoanCaller, nft_account \in {"none", "alice"}, amount \in CreateAmounts,
          installments \in CreateInstallments :
        Commit(process_create_bnpl_contract(World, now, c[1], c[2], c[1], nft_account, amount,
                                            installments, 30),
               "create_bnpl", c[1], c[2], amount)

NextCreate == CreateWalletAny \/ CreateDeposit \/ MintNFT \/ CreateBNPLContractAny

SpecCreate == Init /\ [][NextCreate]_vars

\* Contract creation as above, and the contract's installments paid one by one.
NextPay == NextCreate \/ MakeBNPLPayment

SpecPay == Init /\ [][NextPay]_vars

\* The authorization engine with a second user: alice, who is on the compiled-in
\* list, sets up the on-chain whitelist and adds bob, who has no collateral.
InitializeWhitelist ==
    \E c \in LoanCaller :
        Commit(process_initialize_whitelist(World, c[1], c[2]),
               "initialize_whitelist", c[1], c[2], 0)

AddToWhitelist ==
    \E c \in LoanCaller :
        Commit(process_add_to_whitelist(World, c[1], c[2], "bob"),
               "add_to_whitelist", c[1], c[2], 0)

NextGuest ==
    \/ InitializeWhitelist
    \/ AddToWhitelist
    \/ AuthDeposit
    \/ InitializeFlexFiAccount
    \/ FlexFiSpend

SpecGuest == Init /\ [][NextGuest]_vars

\* A contract made with the borrower's NFT on a Standard card, the card upgraded
\* afterwards, and the repayment checker through and past the grace period.
TierCreateBNPLContract ==
    /\ Len(loans) < MaxLoans
    /\ \E c \in LoanCaller :
        Commit(process_create_bnpl_contract(World, now, c[1], c[2], c[1], c[1], 3000, 3, 15),
               "create_bnpl", c[1], c[2], 3000)

UpgradeCard ==
    \E c \in LoanCaller, new_card_type \in {CARD_SILVER, CARD_GOLD} :
        Commit(process_upgrade_card(World, c[1], c[1], c[1], c[2], new_card_type),
               "upgrade_card", c[1], c[2], 0)

NextTier ==
    \/ CreateWallet
    \/ CreateDeposit
    \/ MintNFT
    \/ TierCreateBNPLContract
    \/ UpgradeCard
    \/ CheckRepayment
    \/ TickInterval
    \/ TickLoanSecond

SpecTier == Init /\ [][NextTier]_vars

\* Contracts of 71,000 made one a second by one borrower on what was staked
\* before the first of them: 71,000 is the most the scaled u64 range lets the
\* Standard card's fee be computed on.
StackDeposit == Len(loans) = 0 /\ DepositStakingOf(LoanCaller, {10000000}, {7})

StackCreateBNPLContract ==
    /\ Len(loans) < MaxStackLoans
    /\ \E c \in LoanCaller :
        Commit(process_create_bnpl_contract(World, now, c[1], c[2], c[1], "none", 71000, 3, 15),
               "create_bnpl", c[1], c[2], 71000)

\* The next second, once a contract holds the PDA of this one.
StackTick ==
    /\ Len(loans) > 0
    /\ loans[Len(loans)].created_at = now
    /\ Tick(1, MaxStackLoans)

NextStack ==
    \/ CreateWallet
    \/ StackDeposit
    \/ StackCreateBNPLContract
    \/ StackTick

SpecStack == Init /\ [][NextStack]_vars

\* ---- the entry point's inputs

\* Instruction data: every variant once, then an index past the last variant
\* with the fields a loan's creation would carry, two more such indices, the
\* highest index a byte holds, a DepositStaking that lacks a field, and no data.
EntryData ==
    { <<0, 10000000, 7>>, <<1, 10000000>>, <<2, NFT_BRONZE>>, <<3, 1>>, <<4>>,
      <<5, CARD_SILVER>>, <<6>>, <<7, 5>>, <<8>>, <<9, 0, TRUE>>, <<10, 500000>>,
      <<11, 500000>>, <<12>>, <<13, "bob">>, <<14, "bob">>, <<15, 10000000, 7>>, <<16>>,
      <<17, 10000000, "m">>,
      <<18, 3000, 3, 15>>, <<19>>, <<20>>, <<255>>, <<0, 10000000>>, <<>> }

EntryAccounts ==
    [user : {Account("alice", TRUE)}, account : {"alice"},
     second : {"alice"}, authority_ok : {TRUE}, mint_authority_signed : {TRUE},
     custom_account : {"none"}, with_clock : {TRUE}]

\* One call of the program's entry point.
ProcessInstruction ==
    \E accounts \in EntryAccounts, instruction_data \in EntryData :
        LET r == process_instruction(World, now, TRUE, accounts, instruction_data)
        IN  /\ \A u \in Users :
                  /\ score[u].exists => score[u].on_time_payments < MaxCount
                  /\ yield[u].exists => yield[u].total_yield_earned <= MaxEntryYield
                  /\ staking[u].exists => staking[u].amount_staked <= MIN_STAKING_AMOUNT
            /\ Commit(r, r.op, accounts.user.key, accounts.user.is_signer, 0)

EntryTick == Tick(7 * DAY, MaxEntryTime)

NextEntry == ProcessInstruction \/ EntryTick

SpecEntry == Init /\ [][NextEntry]_vars

NextYield == SetYieldStrategy \/ RouteYield \/ ClaimYield

SpecYield == Init /\ [][NextYield]_vars

\* ----------------------------------------------------------------- claims

\* C1: an authorization's used_amount never exceeds its authorized_amount, and
\* a Spend that returns an error leaves every authorization's used_amount as
\* it was.
C1_UsedWithinAuthorized ==
    /\ [](\A u \in Users : auth[u].exists => auth[u].used_amount <= auth[u].authorized_amount)
    /\ [][last'.op = "spend" /\ last'.err # "Ok" =>
            \A u \in Users :
                auth[u].exists => auth'[u].used_amount = auth[u].used_amount]_vars

\* A Spend refused for lack of credit on a line that is entirely used.
C1_Witness ==
    /\ last.op = "spend"
    /\ last.err = "InsufficientCollateral"
    /\ \E u \in Users :
        /\ auth[u].exists
        /\ auth[u].used_amount > 0
        /\ auth[u].used_amount = auth[u].authorized_amount


\* The staked amount of a user's position; 0 while the position does not exist.
Locked(stk, u) == IF stk[u].exists THEN stk[u].amount_staked ELSE 0

\* C2: a position's amount_locked is the sum of its accepted deposits minus
\* its accepted withdrawals minus what was seized from its vault: every
\* call changes it by exactly the accepted deposit, the accepted withdrawal or
\* the amount the repayment checker moved out of the vault, and it is never
\* negative.  (A call leaves the clock as it is; the clock's ticks change no
\* record.)
C2_LockedIsNetOfAccepted ==
    [][now' = now => \A u \in Users :
        LET accepted == last'.err = "Ok" /\ last'.caller = u
            deposited == IF last'.op = "deposit" /\ accepted THEN last'.amount ELSE 0
            withdrawn == IF last'.op = "withdraw" /\ accepted THEN last'.amount ELSE 0
            seized == IF last'.op = "check_repayment"
                      THEN tokens[<<"vault", u>>] - tokens'[<<"vault", u>>]
                      ELSE 0
        IN  /\ Locked(staking', u) = Locked(staking, u) + deposited - withdrawn - seized
            /\ Locked(staking', u) >= 0]_vars

\* The records of the program: every account but the token balances.
Records ==
    <<whitelist_account, whitelist, wallet, staking, auth, loans, score, yield, nft, attachment,
      card>>

\* C3: an operation that returns an error leaves every persisted record as it was.
C3_ErrorLeavesRecords ==
    [][last'.err # "Ok" => Records' = Records]_vars

\* C4: a record of a user changes only in a call that the user has signed,
\* while whitelisted, on a record of the user's own.
C4_ChangeNeedsSignedWhitelistedOwner ==
    [][\A u \in Users :
        (\/ staking'[u] # staking[u]
         \/ auth'[u] # auth[u]
         \/ score'[u] # score[u]
         \/ yield'[u] # yield[u]
         \/ \E i \in 1..Len(loans) : loans[i].borrower = u /\ loans'[i] # loans[i])
        => /\ last'.signed
           /\ last'.caller = u
           /\ check_user_whitelisted(World, u)]_vars

\* C5: a contract's status moves only from Active to Completed, Defaulted or
\* Cancelled; a contract that is not Active keeps its status and its
\* paid_installments, and no contract disappears.
C5_StatusOnlyLeavesActive ==
    [][/\ Len(loans') >= Len(loans)
       /\ \A i \in 1..Len(loans) :
            /\ loans[i].status # "Active" =>
                  /\ loans'[i].status = loans[i].status
                  /\ loans'[i].paid_installments = loans[i].paid_installments
            /\ loans'[i].status # loans[i].status =>
                  /\ loans[i].status = "Active"
                  /\ loans'[i].status \in {"Completed", "Defaulted", "Cancelled"}]_vars

\* A payment and a cancellation refused on a contract that is Completed.
C5_Witness ==
    /\ Len(loans) >= 1
    /\ loans[1].status = "Completed"
    /\ last.op \in {"make_payment", "cancel"}
    /\ last.err = "LoanNotActive"

\* C6: paid_installments never exceeds installments; it is below installments
\* while the contract is Active and equal to it once the contract is Completed.
C6_PaidWithinCount ==
    \A i \in 1..Len(loans) :
        /\ loans[i].paid_installments <= loans[i].installments
        /\ loans[i].status = "Active" => loans[i].paid_installments < loans[i].installments
        /\ loans[i].status = "Completed" => loans[i].paid_installments = loans[i].installments

\* The last installment has been paid.
C6_Witness ==
    /\ Len(loans) >= 1
    /\ last.op = "make_payment"
    /\ last.err = "Ok"
    /\ loans[1].status = "Completed"
    /\ loans[1].paid_installments = loans[1].installments

\* C7: a score stays within 0..1000 whatever i16 deltas are applied to it.
C7_ScoreInRange ==
    \A u \in Users : score[u].exists => score[u].score >= 0 /\ score[u].score <= MAX_SCORE

\* A positive delta applied to a score that is already at the cap.
C7_Witness ==
    /\ last.op = "update_score"
    /\ last.err = "Ok"
    /\ score["alice"].exists
    /\ score["alice"].score = MAX_SCORE
    /\ score["alice"].on_time_payments >= 2

\* C8: total_yield_claimed never exceeds total_yield_earned, a claim above
\* their difference is refused, and a refused claim leaves both counters as
\* they were.
C8_ClaimedWithinEarned ==
    /\ [](\A u \in Users :
            yield[u].exists =>
                /\ yield[u].total_yield_claimed <= yield[u].total_yield_earned
                /\ \A amount \in YieldAmounts :
                      amount > yield[u].total_yield_earned - yield[u].total_yield_claimed
                      => process_claim_yield(World, u, u, TRUE, amount).err # "Ok")
    /\ [][last'.op = "claim_yield" /\ last'.err # "Ok" => yield' = yield]_vars

\* A claim above the unclaimed yield, refused after an earlier claim was paid.
C8_Witness ==
    /\ last.op = "claim_yield"
    /\ last.err = "NoYieldToClaim"
    /\ \E u \in Users :
        /\ yield[u].exists
        /\ yield[u].total_yield_claimed > 0
        /\ yield[u].total_yield_claimed < yield[u].total_yield_earned

\* C9: while a position is Frozen or Closed nothing is debited from it: no step
\* decreases its amount_staked, and no step of the repayment checker takes
\* tokens out of its vault.
C9_ClosedNeverDebited ==
    [][\A u \in Users :
        staking[u].exists /\ staking[u].status \in {"Frozen", "Closed"}
        => /\ staking'[u].amount_staked >= staking[u].amount_staked
           /\ last'.op = "check_repayment" /\ now' = now
              => tokens'[<<"vault", u>>] >= tokens[<<"vault", u>>]]_vars

\* C10: an existing score record changes only in a call of the repayment checker.
C10_ScoreChangesOnlyInCheckRepayment ==
    [][\A u \in Users :
        score[u].exists /\ score'[u] # score[u] => last'.op = "check_repayment"]_vars

\* ---- the repayment checker's cases

\* The direct debit of check_repayment on contract i, called with
\* borrower_account, would fail in the current state.
DebitFails(i, borrower_account) ==
    ~transfer(tokens, <<"user", borrower_account.key>>, <<"platform", "p">>,
              loans[i].amount_per_installment, borrower_account.is_signer).ok

\* check_repayment on contract i with the borrower's own score, staking and
\* wallet accounts, in the current state.
CheckRepaymentOn(i, borrower_account) ==
    process_check_repayment(World, now, i, borrower_account, borrower_account.key,
                            borrower_account.key, borrower_account.key)

\* C11: check_repayment on an Active, due contract whose direct debit fails,
\* more than 15 days after the due date, with no collateral left: the contract
\* becomes Defaulted, the borrower's score drops by exactly 50 (not below 0),
\* defaults is incremented and the call returns
\* InsufficientCollateralForAutoDebit.
C11_DefaultWithoutCollateral ==
    \A i \in 1..Len(loans), borrower_account \in LoanAccounts :
        LET b == borrower_account.key
            r == CheckRepaymentOn(i, borrower_account)
        IN  (/\ loans[i].borrower = b
             /\ loans[i].status = "Active"
             /\ DebitFails(i, borrower_account)
             /\ now > loans[i].next_payment_due + GRACE_PERIOD_DAYS * DAY
             /\ wallet[b].exists /\ score[b].exists
             /\ staking[b].exists /\ staking[b].amount_staked = 0)
            => /\ r.err = "InsufficientCollateralForAutoDebit"
               /\ r.w.loans[i].status = "Defaulted"
               /\ r.w.score[b].score = saturating_sub_u16(score[b].score, 50)
               /\ r.w.score[b].defaults = score[b].defaults + 1

\* C12: check_repayment on an Active, due contract whose direct debit fails, at
\* most 15 days after the due date: the call succeeds, the contract and the
\* collateral position stay as they are, the borrower's score drops by exactly
\* 10 and late_payments is incremented.
C12_LateWithinGrace ==
    \A i \in 1..Len(loans), borrower_account \in LoanAccounts :
        LET b == borrower_account.key
            r == CheckRepaymentOn(i, borrower_account)
        IN  (/\ loans[i].borrower = b
             /\ loans[i].status = "Active"
             /\ DebitFails(i, borrower_account)
             /\ now >= loans[i].next_payment_due
             /\ now - loans[i].next_payment_due <= GRACE_PERIOD_DAYS * DAY
             /\ score[b].exists)
            => /\ r.err = "Ok"
               /\ r.w.loans = loans
               /\ r.w.staking = staking
               /\ r.w.score[b].score = saturating_sub_u16(score[b].score, 10)
               /\ r.w.score[b].late_payments = score[b].late_payments + 1

\* ---- contract creation

\* The installment in unbounded integers: floor(total / n) with
\* fee = floor(amount * fee_bps / 10000),
\* apr_component = floor(floor(amount * apr_bps / 10000) * n / 12) and
\* total = amount + fee + apr_component.
PerInstallment(amount, fee_bps, apr_bps, n) ==
    (amount + (amount * fee_bps) \div 10000 + (((amount * apr_bps) \div 10000) * n) \div 12)
        \div n

AllowedInstallments(card_type) ==
    IF card_type \in {CARD_SILVER, CARD_GOLD, CARD_PLATINUM} THEN {3, 4, 6, 12} ELSE {3, 4, 6}

\* C20: the installment-count check accepts n for a card tier exactly when n is
\* in the tier's allowed set, and a contract creation with any other n is
\* rejected with no contract stored and no token moved.
C20_InstallmentsAllowedSet ==
    /\ [](\A card_type \in 0..5, n \in 0..13 :
            check_installments_for_card(card_type, n) <=> n \in AllowedInstallments(card_type))
    /\ [][\A n \in CreateInstallments, nft_account \in {"none", "alice"}, amount \in CreateAmounts :
            LET r == process_create_bnpl_contract(World, now, "alice", TRUE, "alice",
                                                  nft_account, amount, n, 30)
            IN  wallet["alice"].exists /\ n \notin AllowedInstallments(wallet["alice"].card_type)
                => r.err # "Ok" /\ r.w = World]_vars

\* ---- the staking handlers' cases

\* C14: a signed deposit of a whitelisted user with amount >= MIN_STAKING_AMOUNT
\* and lock_days in 7..365, where the user has no position, creates a position
\* that is Locked, holds the amount and ends its lock at now + lock_days * 86400,
\* and succeeds when the user holds the amount; a deposit with a smaller amount,
\* with lock_days outside 7..365 or onto a Frozen or Closed position is
\* rejected and leaves every record as it was.
C14_DepositCreatesOrRejects ==
    \A u \in Users, amount \in {9999999, 10000000, 20000000}, lock_days \in {6, 7, 14, 365, 366} :
        LET r == process_deposit_staking(World, now, u, TRUE, amount, lock_days)
            valid == /\ amount >= MIN_STAKING_AMOUNT
                     /\ lock_days >= MIN_STAKING_LOCK_DAYS
                     /\ lock_days <= MAX_STAKING_LOCK_DAYS
        IN  /\ (valid /\ check_user_whitelisted(World, u) /\ ~staking[u].exists)
                => /\ r.w.staking[u].exists
                   /\ r.w.staking[u].owner = u
                   /\ r.w.staking[u].status = "Locked"
                   /\ r.w.staking[u].amount_staked = amount
                   /\ r.w.staking[u].lock_period_end = now + lock_days * 86400
                   /\ tokens[<<"user", u>>] >= amount => r.err = "Ok"
            /\ (\/ ~valid
                \/ staking[u].exists /\ staking[u].status \in {"Frozen", "Closed"})
                => r.err # "Ok" /\ r.w = World

\* A deposit refused on a position that an earlier deposit created and a
\* withdrawal closed.
C14_Witness ==
    /\ last.op = "deposit"
    /\ last.err = "StakingFrozen"
    /\ last.signed
    /\ last.amount >= MIN_STAKING_AMOUNT
    /\ staking[last.caller].exists
    /\ staking[last.caller].status = "Closed"

\* C16: a signed withdrawal of a whitelisted owner from the owner's position is
\* rejected, with every record unchanged, exactly when the position is Frozen or
\* Closed, or it is Locked and now < lock_period_end, or the amount exceeds
\* amount_staked; in every other case (a Locked position at
\* now = lock_period_end included) it succeeds.
C16_WithdrawRejectedExactlyWhen ==
    \A u \in Users, amount \in WithdrawAmounts :
        LET r == process_withdraw_staking(World, now, u, u, TRUE, amount)
            blocked == \/ staking[u].status \in {"Frozen", "Closed"}
                       \/ staking[u].status = "Locked" /\ now < staking[u].lock_period_end
                       \/ amount > staking[u].amount_staked
        IN  (staking[u].exists /\ staking[u].owner = u /\ check_user_whitelisted(World, u))
            => /\ blocked => r.err # "Ok" /\ r.w = World
               /\ ~blocked => r.err = "Ok"

\* C17: check_unlock_status changes a position only when it is Locked and
\* now >= lock_period_end: the status becomes Active, amount_staked and
\* lock_period_end stay, and no other record changes; a signed call of the
\* whitelisted owner on such a position does unlock it; the same call made
\* again changes nothing and returns the same result.
C17_UnlockOnlyWhenDue ==
    \A account \in Users, c \in Callers :
        LET r == process_check_unlock_status(World, now, account, c[1], c[2])
            again == process_check_unlock_status(r.w, now, account, c[1], c[2])
            due == /\ staking[account].exists
                   /\ staking[account].status = "Locked"
                   /\ now >= staking[account].lock_period_end
        IN  /\ r.w # World
                => due /\ r.w = [World EXCEPT !.staking[account].status = "Active"]
            /\ (due /\ c[2] /\ c[1] = staking[account].owner /\ check_user_whitelisted(World, c[1]))
                => r.err = "Ok" /\ r.w.staking[account].status = "Active"
            /\ again.w = r.w
            /\ again.err = r.err

\* A position unlocked by check_unlock_status: it is Active with the owner's
\* whole balance still in the vault, which no withdrawal leaves behind.
C17_Witness ==
    /\ last.op = "check_unlock"
    /\ last.err = "Ok"
    /\ staking[last.caller].exists
    /\ staking[last.caller].status = "Active"
    /\ now >= staking[last.caller].lock_period_end
    /\ tokens[<<"vault", last.caller>>] = InitialTokens

\* ---- the yield tracker's cases

\* C15: a signed ClaimYield of a whitelisted owner with auto_reinvest set, an
\* amount below 1_000_000 and at most the unclaimed yield succeeds, and such a
\* claim adds the amount to total_yield_earned and to total_yield_claimed and
\* moves no token, so the unclaimed yield is what it was.
C15_ReinvestBelowThreshold ==
    /\ [](\A u \in Users, amount \in YieldAmounts :
            (/\ yield[u].exists /\ yield[u].owner = u /\ yield[u].auto_reinvest
             /\ check_user_whitelisted(World, u)
             /\ amount < REINVEST_THRESHOLD
             /\ amount <= yield[u].total_yield_earned - yield[u].total_yield_claimed)
            => process_claim_yield(World, u, u, TRUE, amount).err = "Ok")
    /\ [][\A u \in Users :
            (/\ last'.op = "claim_yield" /\ last'.err = "Ok" /\ last'.caller = u
             /\ yield[u].exists /\ yield[u].auto_reinvest
             /\ last'.amount < REINVEST_THRESHOLD)
            => /\ yield'[u].total_yield_earned = yield[u].total_yield_earned + last'.amount
               /\ yield'[u].total_yield_claimed = yield[u].total_yield_claimed + last'.amount
               /\ get_unclaimed_yield(yield'[u]) = get_unclaimed_yield(yield[u])
               /\ tokens' = tokens]_vars

\* A claim below the threshold that was reinvested.
C15_Witness ==
    /\ last.op = "claim_yield"
    /\ last.err = "Ok"
    /\ last.amount < REINVEST_THRESHOLD
    /\ yield[last.caller].exists
    /\ yield[last.caller].auto_reinvest
    /\ yield[last.caller].total_yield_claimed > 0
    /\ tokens[<<"yield", last.caller>>] = yield[last.caller].total_yield_earned - yield[last.caller].total_yield_claimed

\* ---- the authorization's life cycle

\* An authorization that was revoked or has expired.
Terminal(a, current_time) == a.exists /\ (~a.is_active \/ current_time >= a.expires_at)

\* C18: an authorization that was revoked (is_active = false) or has expired
\* (now >= expires_at) stays so through every later initialize, spend, revoke
\* and tick of the clock, keeps its used_amount, and in every such state no
\* spend on it succeeds, whatever accounts and amount are handed in.
C18_RevokedExpiredTerminal ==
    /\ [](\A u \in Users :
            Terminal(auth[u], now) =>
                \A staking_account \in Users, authority_ok \in BOOLEAN, amount \in SpendAmounts :
                    process_flexfi_spend(World, now, u, staking_account, authority_ok,
                                         amount).err # "Ok")
    /\ [][\A u \in Users :
            Terminal(auth[u], now) =>
                /\ Terminal(auth'[u], now')
                /\ auth'[u].used_amount = auth[u].used_amount
                /\ ~auth[u].is_active => ~auth'[u].is_active]_vars

\* A spend refused on a revoked authorization that has credit left, is not
\* expired, and whose vault could pay.
C18_Witness ==
    /\ last.op = "spend"
    /\ last.err = "Unauthorized"
    /\ \E u \in Users :
        /\ auth[u].exists
        /\ ~auth[u].is_active
        /\ now < auth[u].expires_at
        /\ auth[u].used_amount > 0
        /\ auth[u].authorized_amount - auth[u].used_amount >= last.amount
        /\ tokens[<<"vault", u>>] >= last.amount

\* C19: a spend on an authorization, with the program's authority and the
\* owner's staking account handed in, succeeds exactly when the authorization
\* is_active, now < expires_at and authorized_amount - used_amount >= amount;
\* a spend that succeeds raises used_amount by exactly the amount.
C19_SpendSucceedsExactlyWhen ==
    \A u \in Users, amount \in SpendAmounts :
        auth[u].exists =>
            LET r == process_flexfi_spend(World, now, u, u, TRUE, amount)
            IN  /\ r.err = "Ok" <=>
                    /\ auth[u].is_active
                    /\ now < auth[u].expires_at
                    /\ auth[u].authorized_amount - auth[u].used_amount >= amount
                /\ r.err = "Ok" =>
                    r.w.auth[u].used_amount = auth[u].used_amount + amount

\* ---- the entry point

\* The handlers of a loan's life, by the names the calls are recorded under.
LoanHandlers == {"create_bnpl", "make_payment", "check_repayment"}

\* Instruction data over every index a byte holds past the enum's variants,
\* with no field and with the fields of a loan's creation, next to the data
\* of every variant.
AnyInstructionData ==
    EntryData \cup { <<index>> \o fields :
                         index \in Len(FlexfiInstruction)..255,
                         fields \in {<<>>, <<3000>>, <<3000, 3>>, <<3000, 3, 15>>} }

\* C21: each of the commands that create, pay and check a loan is routed by
\* the entry point to its handler: in every state there is instruction data
\* on which process_instruction calls process_create_bnpl_contract, data on
\* which it calls process_make_bnpl_payment and data on which it calls
\* process_check_repayment.
C21_LoanCommandsRouted ==
    \A handler \in LoanHandlers :
        \E accounts \in EntryAccounts, instruction_data \in AnyInstructionData :
            process_instruction(World, now, TRUE, accounts, instruction_data).op = handler

\* ---- the staking ledger's additions

\* C22: a signed deposit of a whitelisted owner onto an Active or Locked
\* position whose amount_staked plus the amount exceeds the u64 maximum is
\* rejected with MathOverflow and leaves the position as it was.
C22_DepositOverflowRejected ==
    \A u \in Users, amount \in DepositAmounts :
        (/\ staking[u].exists
         /\ staking[u].status \in {"Active", "Locked"}
         /\ check_user_whitelisted(World, u)
         /\ amount >= MIN_STAKING_AMOUNT
         /\ staking[u].amount_staked + amount > U64_MAX)
        => LET r == process_deposit_staking(World, now, u, TRUE, amount, MIN_STAKING_LOCK_DAYS)
           IN  /\ r.err = "MathOverflow"
               /\ r.w.staking[u] = staking[u]

\* ---- the repayment checker's seizure and direct debit

\* The installment of contract i with its late penalty, for borrower b:
\* per_installment + floor(per_installment * late_penalty_bps / 10000).
TotalDue(i, b) ==
    loans[i].amount_per_installment
    + (loans[i].amount_per_installment
       * get_late_payment_penalty(wallet[b].card_type, loans[i].nft_type)) \div 10000

\* check_repayment on contract i finds the contract Active, the direct debit
\* failing and the grace period over, with the borrower's wallet, score and
\* staking accounts in place.
SeizureDue(i, borrower_account) ==
    LET b == borrower_account.key
    IN  /\ loans[i].borrower = b
        /\ loans[i].status = "Active"
        /\ DebitFails(i, borrower_account)
        /\ now > loans[i].next_payment_due + GRACE_PERIOD_DAYS * DAY
        /\ wallet[b].exists /\ score[b].exists /\ staking[b].exists

\* The contract r.w holds at i is contract i advanced by one installment.
Advanced(r, i) ==
    /\ r.w.loans[i].paid_installments = loans[i].paid_installments + 1
    /\ r.w.loans[i].status =
          IF loans[i].paid_installments + 1 >= loans[i].installments THEN "Completed"
          ELSE "Active"

\* C23: check_repayment past the grace period, the direct debit failing and
\* amount_staked >= total_due: the call succeeds, amount_staked drops by
\* exactly total_due, the contract advances by one installment (Completed if
\* it was the last), the score drops by exactly 20 and late_payments is
\* incremented.
C23_SeizureCoversTotalDue ==
    \A i \in 1..Len(loans), borrower_account \in LoanAccounts :
        LET b == borrower_account.key
            r == CheckRepaymentOn(i, borrower_account)
        IN  (SeizureDue(i, borrower_account) /\ staking[b].amount_staked >= TotalDue(i, b))
            => /\ r.err = "Ok"
               /\ r.w.staking[b].amount_staked = staking[b].amount_staked - TotalDue(i, b)
               /\ Advanced(r, i)
               /\ r.w.score[b].score = saturating_sub_u16(score[b].score, 20)
               /\ r.w.score[b].late_payments = score[b].late_payments + 1

\* C24: check_repayment past the grace period, the direct debit failing and
\* 0 < amount_staked < total_due: amount_staked becomes 0; when what was
\* staked covers the installment the contract advances by one installment
\* and the score drops by exactly 20, otherwise the contract becomes Defaulted
\* with paid_installments as it was and the score drops by exactly 50.
C24_SeizureOfWholeBalance ==
    \A i \in 1..Len(loans), borrower_account \in LoanAccounts :
        LET b == borrower_account.key
            r == CheckRepaymentOn(i, borrower_account)
        IN  (/\ SeizureDue(i, borrower_account)
             /\ staking[b].amount_staked > 0
             /\ staking[b].amount_staked < TotalDue(i, b))
            => /\ r.w.staking[b].amount_staked = 0
               /\ IF staking[b].amount_staked >= loans[i].amount_per_installment
                  THEN /\ Advanced(r, i)
                       /\ r.w.score[b].score = saturating_sub_u16(score[b].score, 20)
                  ELSE /\ r.w.loans[i].status = "Defaulted"
                       /\ r.w.loans[i].paid_installments = loans[i].paid_installments
                       /\ r.w.score[b].score = saturating_sub_u16(score[b].score, 50)

\* C25: check_repayment on an Active, due contract whose direct debit
\* succeeds returns Ok, advances the contract as a payment does, raises the
\* score by 5 and, when the contract is Completed by it, by 20 more (never
\* above 1000), and leaves the staking position as it was.
C25_DirectDebitSucceeds ==
    \A i \in 1..Len(loans), borrower_account \in LoanAccounts :
        LET b == borrower_account.key
            r == CheckRepaymentOn(i, borrower_account)
            paid == update_after_payment(loans[i], now)
        IN  (/\ loans[i].borrower = b
             /\ loans[i].status = "Active"
             /\ now >= loans[i].next_payment_due
             /\ ~DebitFails(i, borrower_account)
             /\ score[b].exists)
            => /\ r.err = "Ok"
               /\ r.w.loans[i] = paid
               /\ r.w.score[b].score =
                     IF paid.status = "Completed"
                     THEN Min(Min(score[b].score + 5, MAX_SCORE) + 20, MAX_SCORE)
                     ELSE Min(score[b].score + 5, MAX_SCORE)
               /\ r.w.staking = staking

\* C26: check_repayment on a contract that is not Active, or before
\* next_payment_due, returns Ok and leaves every record and every token
\* balance as it was; on an Active contract from now == next_payment_due on
\* it is no such no-op (it moves tokens or goes on to the score update).
C26_NoOpUnlessActiveAndDue ==
    \A i \in 1..Len(loans), borrower_account \in LoanAccounts :
        LET r == CheckRepaymentOn(i, borrower_account)
        IN  IF loans[i].status # "Active" \/ now < loans[i].next_payment_due
            THEN r.err = "Ok" /\ r.w = World
            ELSE r.err # "Ok" \/ r.w.tokens # tokens

\* check_repayment has returned Ok on a contract that is no longer Active, and
\* the clock is past the contract's due date.
C26_Witness ==
    /\ last.op = "check_repayment"
    /\ last.err = "Ok"
    /\ Len(loans) > 0
    /\ loans[1].status # "Active"
    /\ now >= loans[1].next_payment_due

\* ---- payments

\* C27: make_payment succeeds only on an Active contract with
\* paid_installments < installments, and then raises paid_installments by
\* exactly 1 and sets Completed exactly when paid_installments reaches
\* installments; on a Completed, Defaulted or Cancelled contract it fails and
\* changes nothing, with LoanNotActive when the whitelisted borrower signed.
C27_PaymentOnlyOnActive ==
    \A i \in 1..Len(loans), c \in Callers :
        LET r == process_make_bnpl_payment(World, now, i, c[1], c[2])
        IN  /\ r.err = "Ok" =>
                /\ loans[i].status = "Active"
                /\ loans[i].paid_installments < loans[i].installments
                /\ r.w.loans[i].paid_installments = loans[i].paid_installments + 1
                /\ r.w.loans[i].status =
                      IF r.w.loans[i].paid_installments = loans[i].installments
                      THEN "Completed" ELSE "Active"
            /\ loans[i].status \in {"Completed", "Defaulted", "Cancelled"} =>
                /\ r.err # "Ok"
                /\ r.w = World
                /\ (c[2] /\ c[1] = loans[i].borrower /\ check_user_whitelisted(World, c[1]))
                   => r.err = "LoanNotActive"

\* A payment refused on a contract that its payments have completed.
C27_Witness ==
    /\ last.op = "make_payment"
    /\ last.err = "LoanNotActive"
    /\ loans[1].status = "Completed"
    /\ loans[1].paid_installments = loans[1].installments

\* The contract r.w holds at i has one installment more than contract i and
\* is still Active.
AdvancedOpen(r, i) ==
    /\ r.w.loans[i].paid_installments = loans[i].paid_installments + 1
    /\ r.w.loans[i].status = "Active"

\* next_payment_due of contract i moved on by payment_interval_days in r.w.
DueMovedByInterval(r, i) ==
    r.w.loans[i].next_payment_due =
        loans[i].next_payment_due + loans[i].payment_interval_days * DAY

\* C28: a make_payment or a check_repayment that advances a contract without
\* completing it moves next_payment_due to the previous next_payment_due plus
\* payment_interval_days * 86400, whatever the time of the call.
C28_DueAdvancesByInterval ==
    \A i \in 1..Len(loans) :
        /\ \A c \in Callers :
              LET r == process_make_bnpl_payment(World, now, i, c[1], c[2])
              IN  AdvancedOpen(r, i) => DueMovedByInterval(r, i)
        /\ \A borrower_account \in LoanAccounts :
              LET r == CheckRepaymentOn(i, borrower_account)
              IN  AdvancedOpen(r, i) => DueMovedByInterval(r, i)

\* ---- cancellation

\* C29: a contract becomes Cancelled only in an accepted cancel that its
\* borrower signed while it was Active with paid_installments = 0, and no
\* contract is created Cancelled; a cancel on a contract that is not Active
\* or has paid_installments > 0 fails and changes nothing.
C29_CancelledOnlyFromUnpaidActive ==
    /\ [](\A i \in 1..Len(loans), c \in Callers :
            LET r == process_cancel_bnpl_contract(World, i, c[1], c[2])
            IN  (loans[i].status # "Active" \/ loans[i].paid_installments > 0)
                => r.err # "Ok" /\ r.w = World)
    /\ [][\A i \in 1..Len(loans') :
            IF i <= Len(loans)
            THEN (loans'[i].status = "Cancelled" /\ loans[i].status # "Cancelled")
                 => /\ last'.op = "cancel" /\ last'.err = "Ok"
                    /\ last'.signed /\ last'.caller = loans[i].borrower
                    /\ loans[i].status = "Active"
                    /\ loans[i].paid_installments = 0
            ELSE loans'[i].status # "Cancelled"]_vars

\* A contract cancelled by its borrower before any payment.
C29_Witness ==
    /\ last.op = "cancel"
    /\ last.err = "Ok"
    /\ loans[1].status = "Cancelled"
    /\ loans[1].paid_installments = 0
    /\ loans[1].borrower = last.caller


\* C30: for every created loan, installments * amount_per_installment is at most
\* total = amount + fee + apr_component and falls short of it by at most
\* installments - 1; the installment, the amount and the count never change after
\* creation; a payment counted on a contract moves exactly one installment from
\* the borrower to the platform in an accepted make_payment, and every accepted
\* make_payment counts one; and a contract is Completed exactly when installments
\* payments were counted, installments * amount_per_installment collected.
C30_FloorLossAndFixedInstallment ==
    /\ [](\A i \in 1..Len(loans) :
               LET c == loans[i]
                   n == c.installments
                   total == c.amount + (c.amount * c.fee_percentage) \div 10000
                               + (((c.amount * c.apr_percentage) \div 10000) * n) \div 12
               IN  /\ n * c.amount_per_installment <= total
                   /\ total - n * c.amount_per_installment <= n - 1
                   /\ c.paid_installments <= n
                   /\ c.status = "Completed" <=> c.paid_installments = n)
    /\ [][(last'.op = "make_payment" /\ last'.err = "Ok")
            => \E i \in 1..Len(loans) :
                   loans'[i].paid_installments = loans[i].paid_installments + 1]_vars
    /\ [][\A i \in 1..Len(loans) :
            /\ Len(loans') >= Len(loans)
            /\ loans'[i].amount_per_installment = loans[i].amount_per_installment
            /\ loans'[i].installments = loans[i].installments
            /\ loans'[i].amount = loans[i].amount
            /\ loans'[i].paid_installments # loans[i].paid_installments
                 => /\ last'.op = "make_payment" /\ last'.err = "Ok"
                    /\ loans'[i].paid_installments = loans[i].paid_installments + 1
                    /\ tokens'[<<"platform", "p">>] =
                           tokens[<<"platform", "p">>] + loans[i].amount_per_installment
                    /\ tokens'[<<"user", loans[i].borrower>>] =
                           tokens[<<"user", loans[i].borrower>>]
                               - loans[i].amount_per_installment]_vars

\* 3000 borrowed on a Silver card in 4 installments: total 3170, installment 792,
\* and the contract Completed by its fourth payment with 3168 collected.
C30_Witness ==
    /\ last.op = "make_payment"
    /\ last.err = "Ok"
    /\ Len(loans) = 1
    /\ loans[1].amount = 3000
    /\ loans[1].installments = 4
    /\ loans[1].amount_per_installment = 792
    /\ loans[1].paid_installments = 4
    /\ loans[1].status = "Completed"
    /\ tokens[<<"platform", "p">>] = 3168


\* C31: an accepted score update classifies its delta by strict thresholds: a
\* delta above 0 increments on_time_payments only, a delta below -30 increments
\* defaults only, a delta from -30 to -1 (-30 itself included) increments
\* late_payments only, and a delta of 0 changes neither the score nor a counter;
\* so -50 counts as a default and -10 and -20 as late payments.  Only the delta
\* i16::MIN is refused, and only by a build with overflow checks.
C31_StrictThresholds ==
    \A u \in Users, overflow_checks \in BOOLEAN,
       change \in {I16_MIN, -50, -31, -30, -20, -10, -1, 0, 1, 5, I16_MAX} :
        LET r == process_update_score(World,
                                      <<Account(u, FALSE), Account("bob", TRUE),
                                        Account("clock", FALSE)>>,
                                      change, overflow_checks)
            old == score[u]
            new == r.w.score[u]
            on_time == IF change > 0 THEN 1 ELSE 0
            default == IF change < -30 THEN 1 ELSE 0
            late == IF change >= -30 /\ change < 0 THEN 1 ELSE 0
        IN  score[u].exists =>
                /\ r.err = (IF change = I16_MIN /\ overflow_checks THEN "Panic" ELSE "Ok")
                /\ r.err = "Ok" =>
                       /\ new.on_time_payments = old.on_time_payments + on_time
                       /\ new.defaults = old.defaults + default
                       /\ new.late_payments = old.late_payments + late
                       /\ change = 0 => new = old
                       /\ change > 0 => new.score >= old.score
                       /\ change < 0 => new.score <= old.score
                       /\ [r.w EXCEPT !.score = World.score] = World

\* The delta -30 accepted on a new score record: 470, one late payment, no default.
C31_Witness ==
    /\ last.op = "update_score"
    /\ last.err = "Ok"
    /\ score["alice"].exists
    /\ score["alice"].score = 470
    /\ score["alice"].late_payments = 1
    /\ score["alice"].defaults = 0
    /\ score["alice"].on_time_payments = 0


\* C32: while the clock does not go back, the lock_period_end of a staking
\* record never decreases in any step, a record is never removed, a record that
\* a step creates or turns Locked has its lock_period_end strictly after the
\* current time, and so has every record a deposit has written.
C32_LockNeverShortened ==
    [][/\ now' >= now
       /\ \A u \in Users :
            /\ staking[u].exists =>
                   /\ staking'[u].exists
                   /\ staking'[u].lock_period_end >= staking[u].lock_period_end
            /\ (staking'[u].exists /\ staking'[u].status = "Locked"
                    /\ (~staking[u].exists \/ staking[u].status # "Locked"))
                   => staking'[u].lock_period_end > now'
            /\ (last'.op = "deposit" /\ staking'[u] # staking[u])
                   => /\ staking'[u].status = "Locked"
                      /\ staking'[u].lock_period_end > now']_vars

\* A second deposit, a week or more after the clock's start, onto a record that
\* is then Locked for 14 days from that deposit.
C32_Witness ==
    /\ last.op = "deposit"
    /\ last.err = "Ok"
    /\ last.amount = 10000000
    /\ now >= 7 * DAY
    /\ staking["alice"].exists
    /\ staking["alice"].amount_staked = 30000000
    /\ staking["alice"].status = "Locked"
    /\ staking["alice"].lock_period_end = now + 14 * DAY


\* C33: an accepted withdrawal of amount lowers amount_staked of the caller's
\* record by exactly amount and leaves the record Closed when what remains is
\* below MIN_STAKING_AMOUNT and Active otherwise; a Closed record refuses every
\* deposit and every withdrawal with nothing changed, and no step changes a
\* Closed record or removes it.
C33_WithdrawClosesBelowMinimum ==
    /\ [][(last'.op = "withdraw" /\ last'.err = "Ok" /\ now' = now)
            => LET u == last'.caller
               IN  /\ staking[u].exists
                   /\ staking[u].amount_staked >= last'.amount
                   /\ staking'[u].amount_staked = staking[u].amount_staked - last'.amount
                   /\ staking'[u].status =
                          (IF staking[u].amount_staked - last'.amount < 10000000
                           THEN "Closed" ELSE "Active")
                   /\ \A v \in Users \ {u} : staking'[v] = staking[v]]_vars
    /\ [](\A u \in Users :
             (staking[u].exists /\ staking[u].status = "Closed")
                => /\ \A c \in Callers, amount \in {0, 1, 10000000, 20000000},
                         lock_days \in {7, 14} :
                          LET r == process_deposit_staking(World, now, c[1], c[2], amount,
                                                           lock_days)
                          IN  c[1] = u => r.err # "Ok" /\ r.w = World
                   /\ \A c \in Callers, amount \in {0, 1, 5000000, 10000000} :
                          LET r == process_withdraw_staking(World, now, u, c[1], c[2], amount)
                          IN  r.err # "Ok" /\ r.w = World)
    /\ [][\A u \in Users :
            (staking[u].exists /\ staking[u].status = "Closed")
                => staking'[u] = staking[u]]_vars

\* 5,000,000 withdrawn from 10,000,000: the record is Closed with 5,000,000 left.
C33_Witness ==
    /\ last.op = "withdraw"
    /\ last.err = "Ok"
    /\ last.amount = 5000000
    /\ staking[last.caller].exists
    /\ staking[last.caller].status = "Closed"
    /\ staking[last.caller].amount_staked = 5000000


\* C34: initialize by an owner is accepted only when the owner's own staking
\* record holds at least authorized_amount at that moment, and then creates the
\* owner's authorization with used_amount 0, is_active and expires_at at the
\* current time plus duration_days days; a refused initialize creates none.
C34_InitializeNeedsOwnCollateral ==
    [][(last'.op = "initialize" /\ now' = now)
        => LET u == last'.caller
           IN  IF last'.err = "Ok"
               THEN /\ staking[u].exists
                    /\ staking[u].amount_staked >= last'.amount
                    /\ ~auth[u].exists
                    /\ auth'[u].exists
                    /\ auth'[u].authorized_amount = last'.amount
                    /\ auth'[u].used_amount = 0
                    /\ auth'[u].is_active
                    /\ auth'[u].expires_at \in {now + d * DAY : d \in DurationDays}
                    /\ \A v \in Users \ {u} : auth'[v] = auth[v]
               ELSE auth' = auth]_vars


\* C35: the collateral is looked at by initialize only.  Wherever an
\* authorization is active and not expired, a spend of any amount up to its
\* remaining credit passes the validity checks whatever amount_staked is: its
\* result is that of the transfer out of the vault, and it is the same with
\* amount_staked set to 0 or to the maximum.
C35_SpendIgnoresCollateral ==
    \A u \in Users, s \in Users :
        (auth[u].exists /\ auth[u].is_active /\ now < auth[u].expires_at
            /\ staking[s].exists)
        => \A amount \in {1, 5000000, 10000000,
                           saturating_sub(auth[u].authorized_amount, auth[u].used_amount)} :
               LET r == process_flexfi_spend(World, now, u, s, TRUE, amount)
                   paid == tokens[<<"vault", s>>] >= amount
               IN  amount <= saturating_sub(auth[u].authorized_amount, auth[u].used_amount)
                   => /\ r.err = (IF paid THEN "Ok" ELSE "TokenInsufficientFunds")
                      /\ paid => r.w.auth[u].used_amount = auth[u].used_amount + amount
                      /\ r.w.staking = staking
                      /\ \A x \in {0, U64_MAX} :
                             process_flexfi_spend(
                                 [World EXCEPT !.staking[s].amount_staked = x],
                                 now, u, s, TRUE, amount).err = r.err

\* After initialize for 20,000,000 and a withdrawal of 10,000,000 once the lock
\* has ended, 5,000,000 was spent: the remaining credit of 15,000,000 is more
\* than the 10,000,000 staked.
C35_Witness ==
    /\ last.op = "spend"
    /\ last.err = "Ok"
    /\ last.amount = 5000000
    /\ auth["alice"].exists
    /\ auth["alice"].is_active
    /\ now < auth["alice"].expires_at
    /\ auth["alice"].authorized_amount = 20000000
    /\ auth["alice"].used_amount = 5000000
    /\ staking["alice"].exists
    /\ staking["alice"].amount_staked = 10000000


\* C36: the vault of every staking record holds at least the record's
\* amount_staked, so that a withdrawal which passes the checks on the record
\* is paid out of the vault.
C36_VaultCoversStaked ==
    \A u \in Users :
        staking[u].exists
        => /\ tokens[<<"vault", u>>] >= staking[u].amount_staked
           /\ \A amount \in WithdrawAmounts :
                  LET r == process_withdraw_staking(World, now, u, u, TRUE, amount)
                  IN  r.err \notin {"Unauthorized", "StakingFrozen", "InsufficientStaking"}
                      => r.err = "Ok"


MissedInstallments(b) ==
    {i \in 1..Len(loans) :
        loans[i].borrower = b /\ loans[i].status = "Active" /\ now >= loans[i].next_payment_due}

C39_PenaltyFromSnapshot ==
    [][(last'.op = "check_repayment" /\ now' = now)
        => \A i \in 1..Len(loans) :
              LET b == loans[i].borrower
                  taken == tokens[<<"vault", b>>] - tokens'[<<"vault", b>>]
                  due == loans[i].amount_per_installment
                         + (loans[i].amount_per_installment
                            * get_late_payment_penalty(loans[i].card_type,
                                                       loans[i].nft_type)) \div 10000
              IN  taken > 0 => taken = due \/ (taken = staking[b].amount_staked /\ taken < due)]_vars


\* The principal of the Active contracts of borrower b among ls[lo..hi], summed
\* by halves.
RECURSIVE ActivePrincipal(_, _, _, _)
ActivePrincipal(ls, b, lo, hi) ==
    IF lo > hi THEN 0
    ELSE IF lo = hi
         THEN (IF ls[lo].borrower = b /\ ls[lo].status = "Active" THEN ls[lo].amount ELSE 0)
         ELSE LET mid == (lo + hi) \div 2
              IN  ActivePrincipal(ls, b, lo, mid) + ActivePrincipal(ls, b, mid + 1, hi)

\* C40: whenever a contract is created, the principal of its borrower's Active
\* contracts, the new one included, is at most the borrower's amount_staked at
\* that moment: a creation that would pass it is refused.
C40_ActiveLoansWithinCollateral ==
    [][(last'.op = "create_bnpl" /\ Len(loans') = Len(loans) + 1)
        => LET b == loans'[Len(loans')].borrower
           IN  /\ staking[b].exists
               /\ ActivePrincipal(loans', b, 1, Len(loans')) <= staking[b].amount_staked]_vars

====
